---------------------------- MODULE Spec2Model ----------------------------
(***************************************************************************)
(* The batch pipeline of build_unified_dataset.py: thirteen source         *)
(* normalizers, the sequential left merge onto the ND-GAIN spine, the      *)
(* post-merge filter, the consolidation of overlapping indicators, the     *)
(* three derived indices (DII, RRS, CRI), the metadata columns and the     *)
(* three output files.                                                     *)
(*                                                                         *)
(* Representation.  A string is a sequence of one-character strings.  A    *)
(* missing object cell (numpy nan / None) is NaN.  A number is an exact    *)
(* rational <<n, d>> in lowest terms with d > 0; a missing number is NULL. *)
(* A DataFrame is [cols |-> sequence of column names, rows |-> sequence of *)
(* rows], a row being a function from the column names to cells.           *)
(***************************************************************************)
EXTENDS Integers, Sequences, FiniteSets, TLC

-----------------------------------------------------------------------------
(* Bounds of the exploration *)

\* At most this many of the thirteen sources deviate, in one run, from the
\* nominal input directory (a missing file, dirty codes, duplicate records, ...).
MaxDeviations == 1

\* The script is run this many times over the same input directory.
MaxRuns == 2

-----------------------------------------------------------------------------
(* The state of a run *)

VARIABLES
  pc,            \* the section the script is about to run
  deviations,    \* how many raw sources differ from the nominal files
  datasets,      \* the normalized tables: ndgain_final, ntl_final, ...
  final,         \* the table being built
  merge_index,   \* position of the merge loop in merge_datasets
  pycountry,     \* whether the pycountry package can be imported
  files,         \* the output files written so far
  raw,           \* the raw files each section has read from the input directory
  call,          \* the last call of a helper function on its own: arguments, result
  run            \* which run of the script over the input directory this is

vars == <<pc, deviations, datasets, final, merge_index, pycountry, files, raw, call, run>>

-----------------------------------------------------------------------------
(* Configuration block of the script *)

YEAR_START == 2000
YEAR_END == 2024
DII_AFFECTED_WEIGHT == 4

-----------------------------------------------------------------------------
(* Strings *)

NaN == <<"NaN">>

S1(a) == <<a>>
S2(a, b) == <<a, b>>
S3(a, b, c) == <<a, b, c>>
S4(a, b, c, d) == <<a, b, c, d>>

LowerCase ==
  <<"a", "b", "c", "d", "e", "f", "g", "h", "i", "j", "k", "l", "m", "n", "o", "p", "q",
    "r", "s", "t", "u", "v", "w", "x", "y", "z", "o^">>

\* "o^" and "O^" stand for o and O with circumflex
UpperCase ==
  <<"A", "B", "C", "D", "E", "F", "G", "H", "I", "J", "K", "L", "M", "N", "O", "P", "Q",
    "R", "S", "T", "U", "V", "W", "X", "Y", "Z", "O^">>

\* str.upper(), character by character
UpperChar(c) ==
  IF \E i \in 1..Len(LowerCase) : LowerCase[i] = c
  THEN UpperCase[CHOOSE i \in 1..Len(LowerCase) : LowerCase[i] = c]
  ELSE c

StrUpper(s) == [i \in 1..Len(s) |-> UpperChar(s[i])]

\* the characters str.strip() removes, as far as the inputs use them
Whitespace == {" ", "\t", "\n"}

RECURSIVE LStrip(_)
LStrip(s) == IF s # <<>> /\ Head(s) \in Whitespace THEN LStrip(Tail(s)) ELSE s

RECURSIVE RStrip(_)
RStrip(s) ==
  IF s # <<>> /\ s[Len(s)] \in Whitespace THEN RStrip(SubSeq(s, 1, Len(s) - 1)) ELSE s

StrStrip(s) == RStrip(LStrip(s))

\* astype(str): a missing cell becomes the text "nan"
AsTypeStr(v) == IF v = NaN THEN S3("n", "a", "n") ELSE v

\* code points, for the ordering of sort_values
CharOrd(c) ==
  CASE c = " " -> 32
    [] c = "-" -> 45
    [] c = "." -> 46
    [] c = "1" -> 49
    [] c = "2" -> 50
    [] c = "A" -> 65
    [] c = "D" -> 68
    [] c = "E" -> 69
    [] c = "F" -> 70
    [] c = "G" -> 71
    [] c = "L" -> 76
    [] c = "M" -> 77
    [] c = "N" -> 78
    [] c = "R" -> 82
    [] c = "S" -> 83
    [] c = "U" -> 85
    [] c = "a" -> 97
    [] c = "d" -> 100
    [] c = "e" -> 101
    [] c = "f" -> 102
    [] c = "g" -> 103
    [] c = "l" -> 108
    [] c = "n" -> 110
    [] c = "r" -> 114
    [] c = "s" -> 115
    [] c = "u" -> 117
    [] OTHER -> 127

RECURSIVE StrLess(_, _)
StrLess(s, t) ==
  IF t = <<>> THEN FALSE
  ELSE IF s = <<>> THEN TRUE
  ELSE IF CharOrd(Head(s)) # CharOrd(Head(t)) THEN CharOrd(Head(s)) < CharOrd(Head(t))
  ELSE StrLess(Tail(s), Tail(t))

\* decimal digits: str(y) and pd.to_numeric on a header
DigitChar(d) ==
  CASE d = 0 -> "0" [] d = 1 -> "1" [] d = 2 -> "2" [] d = 3 -> "3" [] d = 4 -> "4"
    [] d = 5 -> "5" [] d = 6 -> "6" [] d = 7 -> "7" [] d = 8 -> "8" [] OTHER -> "9"

IsDigit(c) == c \in {"0", "1", "2", "3", "4", "5", "6", "7", "8", "9"}

DigitVal(c) == CHOOSE d \in 0..9 : DigitChar(d) = c

RECURSIVE IntToStr(_)
IntToStr(n) ==
  IF n < 10 THEN <<DigitChar(n)>> ELSE Append(IntToStr(n \div 10), DigitChar(n % 10))

YearNA == 0 - 1

RECURSIVE DigitsToInt(_, _)
DigitsToInt(s, acc) ==
  IF s = <<>> THEN acc ELSE DigitsToInt(Tail(s), 10 * acc + DigitVal(Head(s)))

\* pd.to_numeric(errors='coerce').astype('Int64') on a text: digits or <NA>
ToNumericYear(s) ==
  IF s # <<>> /\ \A i \in 1..Len(s) : IsDigit(s[i]) THEN DigitsToInt(s, 0) ELSE YearNA

-----------------------------------------------------------------------------
(* Numbers: exact rationals, NULL for a missing value *)

NULL == <<>>

Abs(x) == IF x < 0 THEN 0 - x ELSE x

RECURSIVE GCD(_, _)
GCD(a, b) == IF b = 0 THEN a ELSE GCD(b, a % b)

Rat(n, d) ==
  LET g == GCD(Abs(n), Abs(d))
      s == IF d < 0 THEN 0 - 1 ELSE 1
  IN <<(s * n) \div g, (s * d) \div g>>

Num(n) == <<n, 1>>

IsNull(v) == v = NULL
NotNull(v) == v # NULL

RAdd(a, b) == IF IsNull(a) \/ IsNull(b) THEN NULL ELSE Rat(a[1] * b[2] + b[1] * a[2], a[2] * b[2])
RSub(a, b) == IF IsNull(a) \/ IsNull(b) THEN NULL ELSE Rat(a[1] * b[2] - b[1] * a[2], a[2] * b[2])
RMul(a, b) ==
  IF IsNull(a) \/ IsNull(b) THEN NULL
  ELSE LET g1 == GCD(Abs(a[1]), b[2])
           g2 == GCD(Abs(b[1]), a[2])
       IN Rat((a[1] \div g1) * (b[1] \div g2), (a[2] \div g2) * (b[2] \div g1))
\* a / b for b # 0
RDiv(a, b) == IF IsNull(a) \/ IsNull(b) THEN NULL ELSE RMul(a, Rat(b[2], b[1]))

RLess(a, b) == a[1] * b[2] < b[1] * a[2]
RLeq(a, b) == a[1] * b[2] <= b[1] * a[2]
IsZero(a) == NotNull(a) /\ a[1] = 0

\* Series.fillna(default)
FillNa(v, default) == IF IsNull(v) THEN default ELSE v


RECURSIVE SumSeq(_)
SumSeq(vals) == IF vals = <<>> THEN Num(0) ELSE RAdd(Head(vals), SumSeq(Tail(vals)))

NonNullOf(vals) == SelectSeq(vals, NotNull)

\* Series.sum(): missing values are skipped
SeriesSum(vals) == SumSeq(NonNullOf(vals))

\* Series.mean(): missing values are skipped, no value at all gives NaN
SeriesMean(vals) ==
  LET nn == NonNullOf(vals)
  IN IF nn = <<>> THEN NULL ELSE RDiv(SumSeq(nn), Num(Len(nn)))

RECURSIVE SeqMin(_)
SeqMin(vals) ==
  IF Len(vals) = 1 THEN vals[1]
  ELSE LET m == SeqMin(Tail(vals)) IN IF RLeq(Head(vals), m) THEN Head(vals) ELSE m

RECURSIVE SeqMax(_)
SeqMax(vals) ==
  IF Len(vals) = 1 THEN vals[1]
  ELSE LET m == SeqMax(Tail(vals)) IN IF RLeq(m, Head(vals)) THEN Head(vals) ELSE m

\* Series.min() / Series.max(): NaN when there is no value
SeriesMin(vals) == IF NonNullOf(vals) = <<>> THEN NULL ELSE SeqMin(NonNullOf(vals))
SeriesMax(vals) == IF NonNullOf(vals) = <<>> THEN NULL ELSE SeqMax(NonNullOf(vals))

-----------------------------------------------------------------------------
(* DataFrames *)

Range(s) == {s[i] : i \in DOMAIN s}

KeyCols == {"iso3", "year"}

EmptyFrame(cols) == [cols |-> cols, rows |-> <<>>]

HasCol(t, c) == c \in Range(t.cols)

NRows(t) == Len(t.rows)

\* df[c] as a sequence of cells
Column(t, c) == [i \in 1..Len(t.rows) |-> t.rows[i][c]]

\* df[c] = vals: a new column goes last, an existing one keeps its place
SetCol(t, c, vals) ==
  [cols |-> IF HasCol(t, c) THEN t.cols ELSE Append(t.cols, c),
   rows |-> [i \in 1..Len(t.rows) |->
               [x \in (DOMAIN t.rows[i]) \cup {c} |->
                  IF x = c THEN vals[i] ELSE t.rows[i][x]]]]

\* df[list of columns]
Project(t, cols) ==
  [cols |-> cols,
   rows |-> [i \in 1..Len(t.rows) |-> [x \in Range(cols) |-> t.rows[i][x]]]]

DataCols(t) == SelectSeq(t.cols, LAMBDA c : c \notin KeyCols)

InYearRange(y) == y # YearNA /\ y >= YEAR_START /\ y <= YEAR_END

\* df[(df['year'] >= YEAR_START) & (df['year'] <= YEAR_END)]
FilterYears(t) == [t EXCEPT !.rows = SelectSeq(t.rows, LAMBDA r : InYearRange(r.year))]

\* variant without the dropna: rows without a code stay
KeepNaIso3(t) == t

\* df.dropna(subset=['iso3'])
DropNaIso3(t) == [t EXCEPT !.rows = SelectSeq(t.rows, LAMBDA r : r.iso3 # NaN)]

-----------------------------------------------------------------------------
(* standardize_iso3 *)

invalid_values ==
  { <<>>, S3("N", "A", "N"), S4("N", "O", "N", "E"), S2("-", "1"), S3(" ", " ", " "),
    S2("N", "A"), S4("N", "U", "L", "L"), S3(".", ".", ".") }

\* variant: no strip before the upper-casing
StandardizeNoStrip(v) ==
  LET s == StrUpper(AsTypeStr(v))
  IN IF s \in invalid_values THEN NaN ELSE s

StandardizeCode(v) ==
  LET s == StrUpper(StrStrip(AsTypeStr(v)))
  IN IF s \in invalid_values THEN NaN ELSE s

standardize_iso3(t) ==
  [t EXCEPT !.rows = [i \in 1..Len(t.rows) |->
                        [t.rows[i] EXCEPT !.iso3 = StandardizeCode(@)]]]

-----------------------------------------------------------------------------
(* Ordering of keys: sort_values(['iso3', 'year']), groupby(['iso3', 'year']) *)

\* missing codes sort last
CodeLess(a, b) ==
  IF a = NaN THEN FALSE ELSE IF b = NaN THEN TRUE ELSE StrLess(a, b)

KeyLess(r, s) ==
  \/ CodeLess(r.iso3, s.iso3)
  \/ r.iso3 = s.iso3 /\ r.year < s.year

\* x goes before the first row that is greater than it: the sort is stable
RECURSIVE InsertSorted(_, _)
InsertSorted(sorted, x) ==
  IF sorted = <<>> THEN <<x>>
  ELSE IF KeyLess(x, Head(sorted)) THEN <<x>> \o sorted
  ELSE <<Head(sorted)>> \o InsertSorted(Tail(sorted), x)

RECURSIVE SortRows(_)
SortRows(rows) ==
  IF rows = <<>> THEN <<>>
  ELSE InsertSorted(SortRows(SubSeq(rows, 1, Len(rows) - 1)), rows[Len(rows)])

\* df.sort_values(['iso3', 'year']).reset_index(drop=True)
SortByKey(t) == [t EXCEPT !.rows = SortRows(t.rows)]

KeyEq(r, s) == r.iso3 = s.iso3 /\ r.year = s.year

KeyOf(r) == [iso3 |-> r.iso3, year |-> r.year]

\* the first row of each key, in the order of first appearance
RECURSIVE FirstOfKeys(_, _)
FirstOfKeys(rows, seen) ==
  IF rows = <<>> THEN <<>>
  ELSE IF KeyOf(Head(rows)) \in seen THEN FirstOfKeys(Tail(rows), seen)
  ELSE <<KeyOf(Head(rows))>> \o FirstOfKeys(Tail(rows), seen \cup {KeyOf(Head(rows))})

\* groupby(['iso3', 'year']): groups in key order; a row with a missing key
\* belongs to no group
GroupKeys(rows) ==
  SortRows(FirstOfKeys(SelectSeq(rows, LAMBDA r : r.iso3 # NaN /\ r.year # YearNA), {}))

Members(rows, k) == SelectSeq(rows, LAMBDA r : KeyEq(r, k))

-----------------------------------------------------------------------------
(* DataFrame.merge on ['iso3', 'year'] *)

\* variant filling the cells of an unmatched row with 0 instead of NaN
ZeroCells(cols) == [x \in Range(cols) |-> <<0, 1>>]

NullCells(cols) == [x \in Range(cols) |-> NULL]

JoinRow(r, s, dcols) ==
  [x \in (DOMAIN r) \cup Range(dcols) |-> IF x \in Range(dcols) THEN s[x] ELSE r[x]]

\* one output row per matching right row, in the right table's order; a left
\* row without a match is kept with missing cells; missing keys match each other
LeftJoinRow(r, right, dcols) ==
  LET m == Members(right.rows, r)
  IN IF m = <<>> THEN <<JoinRow(r, NullCells(dcols), dcols)>>
     ELSE [k \in 1..Len(m) |-> JoinRow(r, m[k], dcols)]

RECURSIVE LeftJoinRows(_, _, _)
LeftJoinRows(lrows, right, dcols) ==
  IF lrows = <<>> THEN <<>>
  ELSE LeftJoinRow(Head(lrows), right, dcols) \o LeftJoinRows(Tail(lrows), right, dcols)

\* variant how='inner': a left row without a match is dropped
RECURSIVE InnerJoinRows(_, _, _)
InnerJoinRows(lrows, right, dcols) ==
  IF lrows = <<>> THEN <<>>
  ELSE LET m == Members(right.rows, Head(lrows))
       IN [k \in 1..Len(m) |-> JoinRow(Head(lrows), m[k], dcols)]
          \o InnerJoinRows(Tail(lrows), right, dcols)

MergeInner(left, right) ==
  [cols |-> left.cols \o DataCols(right),
   rows |-> InnerJoinRows(left.rows, right, DataCols(right))]

\* left.merge(right, on=['iso3', 'year'], how='left')
MergeLeft(left, right) ==
  [cols |-> left.cols \o DataCols(right),
   rows |-> LeftJoinRows(left.rows, right, DataCols(right))]

\* the right rows no left row matches, with the left's data columns missing
OuterExtraRows(left, right) ==
  LET extra == SelectSeq(right.rows, LAMBDA s : Members(left.rows, s) = <<>>)
  IN [k \in 1..Len(extra) |->
        [x \in Range(left.cols) \cup Range(right.cols) |->
           IF x \in DOMAIN extra[k] THEN extra[k][x] ELSE NULL]]

\* left.merge(right, on=['iso3', 'year'], how='outer'): the keys come out sorted
MergeOuter(left, right) ==
  [cols |-> left.cols \o DataCols(right),
   rows |-> SortRows(LeftJoinRows(left.rows, right, DataCols(right))
                      \o OuterExtraRows(left, right))]

-----------------------------------------------------------------------------
(* The input directory: codes, years and headers the raw files use *)

USA == S3("U", "S", "A")
FRA == S3("F", "R", "A")
usa == S3("u", "s", "a")

H1999 == IntToStr(1999)
H2010 == IntToStr(2010)
H2011 == IntToStr(2011)
HName == S4("N", "a", "m", "e")

\* a raw file that could not be read (missing, unreadable)
Unreadable == [present |-> FALSE]

\* year_cols = [str(y) for y in range(YEAR_START, YEAR_END + 1)]
year_cols == [i \in 1..(YEAR_END - YEAR_START + 1) |-> IntToStr(YEAR_START + i - 1)]

-----------------------------------------------------------------------------
(* melt_wide_to_long *)

\* a wide file: [columns |-> headers, rows |-> <<[ISO3 |-> code, cells |-> header -> cell]>>]
WideRow(code, v1999, v2010, v2011) ==
  [ISO3 |-> code, cells |-> (H1999 :> v1999) @@ (H2010 :> v2010) @@ (H2011 :> v2011)]

\* variant: only the first year column is melted
MeltFirstColumn(df, cols, value_name) ==
  IF cols = <<>> THEN <<>>
  ELSE [i \in 1..Len(df.rows) |->
          ("iso3" :> df.rows[i].ISO3) @@ ("year" :> Head(cols))
            @@ (value_name :> df.rows[i].cells[Head(cols)])]

\* df.melt: one block of rows per year column, the entities in file order
RECURSIVE MeltRows(_, _, _)
MeltRows(df, cols, value_name) ==
  IF cols = <<>> THEN <<>>
  ELSE [i \in 1..Len(df.rows) |->
          ("iso3" :> df.rows[i].ISO3) @@ ("year" :> Head(cols))
            @@ (value_name :> df.rows[i].cells[Head(cols)])]
       \o MeltRows(df, Tail(cols), value_name)

\* the year header is parsed by pd.to_numeric(...).astype('Int64')
melt_wide_to_long(df, cols, value_name) ==
  LET long == MeltRows(df, cols, value_name)
  IN [cols |-> <<"iso3", "year", value_name>>,
      rows |-> [i \in 1..Len(long) |-> [long[i] EXCEPT !.year = ToNumericYear(@)]]]

-----------------------------------------------------------------------------
(* 1. ND-GAIN, the spine *)

WideFile(codes, cells) ==
  [columns |-> <<S4("I", "S", "O", "3"), HName, H1999, H2010, H2011>>,
   rows |-> [i \in 1..Len(codes) |-> WideRow(codes[i], NULL, cells[i][1], cells[i][2])]]

NDGainFiles(codes) ==
  [present |-> TRUE,
   gain |-> WideFile(codes, <<<<Num(60), Num(61)>>, <<Num(55), NULL>>>>),
   readiness |-> WideFile(codes, <<<<Rat(1, 2), NULL>>, <<Rat(3, 5), NULL>>>>),
   vulnerability |-> WideFile(codes, <<<<Rat(2, 5), Rat(2, 5)>>, <<Rat(1, 2), NULL>>>>)]

NDGainNominal == NDGainFiles(<<USA, FRA>>)

\* readiness.csv without the 2011 column
NDGainShortReadiness ==
  [NDGainNominal EXCEPT !.readiness.columns = <<S4("I", "S", "O", "3"), HName, H2010>>]

NDGainInputs ==
  { NDGainNominal, Unreadable, NDGainShortReadiness,
    NDGainFiles(<<S4(" ", "u", "s", "a"), S4("F", "R", "A", " ")>>),
    NDGainFiles(<<USA, S2("n", "a")>>),
    NDGainFiles(<<USA, NaN>>),
    NDGainFiles(<<USA, <<>>>>),
    NDGainFiles(<<USA, S4("U", "S", "A", "1")>>),
    NDGainFiles(<<USA, S2("F", "R")>>),
    NDGainFiles(<<USA, usa>>) }

\* [y for y in year_cols if y in gain_df.columns]
ExistingYearCols(columns) == SelectSeq(year_cols, LAMBDA y : y \in Range(columns))

\* the body of the try block; a year column missing from a file raises KeyError
NDGainRaises(f) ==
  \/ ~f.present
  \/ LET gain_years == ExistingYearCols(f.gain.columns)
     IN \/ ~(Range(gain_years) \subseteq Range(f.readiness.columns))
        \/ ~(Range(gain_years) \subseteq Range(f.vulnerability.columns))

ProcessNDGain(f) ==
  IF NDGainRaises(f) THEN EmptyFrame(<<"iso3", "year">>)
  ELSE LET gain_years == ExistingYearCols(f.gain.columns)
           gain_long == melt_wide_to_long(f.gain, gain_years, "ndgain_score")
           readiness_long == melt_wide_to_long(f.readiness, gain_years, "ndgain_readiness")
           vulnerability_long ==
             melt_wide_to_long(f.vulnerability, gain_years, "ndgain_vulnerability")
       IN standardize_iso3(MergeOuter(MergeOuter(gain_long, readiness_long),
                                      vulnerability_long))

-----------------------------------------------------------------------------
(* groupby(['iso3', 'year']) aggregation: one output row per group, in key order *)

Aggregate(rows, Agg(_, _)) ==
  LET keys == GroupKeys(rows)
  IN [i \in 1..Len(keys) |-> Agg(keys[i], Members(rows, keys[i]))]

\* the cells of column c in a sequence of rows
Cells(rows, c) == [i \in 1..Len(rows) |-> rows[i][c]]

-----------------------------------------------------------------------------
(* 2. Harmonized nighttime lights *)

Rec3(code, year, name, v) == ("iso3" :> code) @@ ("year" :> year) @@ (name :> v)

PosInf == <<1, 0>>
NegInf == <<0 - 1, 0>>

\* pct_change() * 100 between consecutive rows of one country
PctChange(prev, cur) ==
  IF IsNull(prev) \/ IsNull(cur) THEN NULL
  ELSE IF IsZero(prev)
       THEN (IF IsZero(cur) THEN NULL ELSE IF cur[1] > 0 THEN PosInf ELSE NegInf)
  ELSE RMul(RDiv(RSub(cur, prev), prev), Num(100))

\* groupby('iso3')[c].pct_change() on rows sorted by (iso3, year)
GroupPctChange(rows, c) ==
  [i \in 1..Len(rows) |->
     IF rows[i].iso3 = NaN \/ i = 1 THEN NULL
     ELSE IF rows[i - 1].iso3 # rows[i].iso3 THEN NULL
     ELSE PctChange(rows[i - 1][c], rows[i][c])]

NTLNominal ==
  [present |-> TRUE,
   dmsp |-> <<Rec3(USA, 2010, "ntl_radiance", Num(10)),
              Rec3(USA, 2011, "ntl_radiance", Num(12)),
              Rec3(USA, 1999, "ntl_radiance", Num(9))>>,
   viirs |-> <<Rec3(USA, 2013, "ntl_radiance", Num(20)),
               Rec3(USA, 2013, "ntl_radiance", Num(22))>>]

NTLInputs ==
  { NTLNominal, Unreadable,
    [NTLNominal EXCEPT !.dmsp = <<Rec3(usa, 2010, "ntl_radiance", Num(10)),
                                  Rec3(USA, 2010, "ntl_radiance", Num(11))>>],
    [NTLNominal EXCEPT !.viirs = <<Rec3(FRA, 2010, "ntl_radiance", Num(5)),
                                   Rec3(NaN, 2010, "ntl_radiance", Num(5))>>] }

ProcessNTL(f) ==
  IF ~f.present THEN EmptyFrame(<<"iso3", "year", "ntl_radiance">>)
  ELSE LET dmsp_df == SelectSeq(f.dmsp, LAMBDA r : r.year >= YEAR_START /\ r.year <= 2012)
           viirs_annual ==
             SelectSeq(
               Aggregate(f.viirs,
                 LAMBDA k, m : Rec3(k.iso3, k.year, "ntl_radiance",
                                    SeriesMean(Cells(m, "ntl_radiance")))),
               LAMBDA r : r.year <= YEAR_END)
           ntl == SortByKey(standardize_iso3(
                    [cols |-> <<"iso3", "year", "ntl_radiance">>,
                     rows |-> dmsp_df \o viirs_annual]))
       IN SetCol(ntl, "ntl_growth", GroupPctChange(ntl.rows, "ntl_radiance"))

-----------------------------------------------------------------------------
(* 3. EM-DAT *)

EmdatEvent(code, year, deaths, affected, damage) ==
  ("iso3" :> code) @@ ("year" :> year) @@ ("emdat_deaths" :> deaths)
    @@ ("emdat_affected" :> affected) @@ ("emdat_damage_usd" :> damage)

EmdatFile(events) == [present |-> TRUE, has_keys |-> TRUE, events |-> events]

\* the EM-DAT folder: the Excel files glob finds, in the order it returns them
EmdatDir(listing) == [present |-> TRUE, listing |-> listing]

EmdatNominalFile ==
  EmdatFile(<<EmdatEvent(USA, 2010, Num(10), Num(50000), NULL),
              EmdatEvent(USA, 2011, Num(5), NULL, Num(7)),
              EmdatEvent(USA, 2011, NULL, Num(300), NULL),
              EmdatEvent(USA, 2011, Num(10), NULL, NULL),
              EmdatEvent(USA, 1999, Num(1), Num(1), Num(1))>>)

EmdatOlderFile == EmdatFile(<<EmdatEvent(FRA, 2010, Num(4), Num(40), NULL)>>)

EmdatNominal == EmdatDir(<<EmdatNominalFile>>)

EmdatInputs ==
  { EmdatNominal, Unreadable,
    \* no Excel file in the folder
    EmdatDir(<<>>),
    \* two Excel files, listed one way or the other
    EmdatDir(<<EmdatNominalFile, EmdatOlderFile>>),
    EmdatDir(<<EmdatOlderFile, EmdatNominalFile>>),
    \* no ISO / Start Year column
    EmdatDir(<<[present |-> TRUE, has_keys |-> FALSE, events |-> <<>>]>>),
    \* one country under two spellings of its code
    EmdatDir(<<EmdatFile(<<EmdatEvent(USA, 2010, Num(10), Num(50000), NULL),
                           EmdatEvent(usa, 2010, Num(2), NULL, NULL)>>)>>),
    EmdatDir(<<EmdatFile(<<EmdatEvent(NaN, 2010, Num(3), NULL, NULL),
                           EmdatEvent(S2("n", "a"), 2010, Num(3), NULL, NULL),
                           EmdatEvent(FRA, YearNA, Num(3), NULL, NULL)>>)>>),
    EmdatDir(<<EmdatFile(<<>>)>>) }

\* variant: a later run takes the last file of the listing
LastFileOnRerun(emdat_files) == emdat_files[IF run = 1 THEN 1 ELSE Len(emdat_files)]

\* emdat_files[0]
FirstFile(emdat_files) == emdat_files[1]

emdat_numeric_cols == <<"emdat_deaths", "emdat_affected", "emdat_damage_usd">>

\* pd.to_numeric(...).fillna(0) on the three numeric columns
EmdatFillNa(r) ==
  [x \in DOMAIN r |-> IF x \in Range(emdat_numeric_cols) THEN FillNa(r[x], Num(0)) ELSE r[x]]

\* the sums and the event count of one (iso3, year) group
EmdatAgg(k, m) ==
  ("iso3" :> k.iso3) @@ ("year" :> k.year)
    @@ ("emdat_deaths" :> SeriesSum(Cells(m, "emdat_deaths")))
    @@ ("emdat_affected" :> SeriesSum(Cells(m, "emdat_affected")))
    @@ ("emdat_damage_usd" :> SeriesSum(Cells(m, "emdat_damage_usd")))
    @@ ("emdat_event_count" :> Num(Len(m)))

\* the records are grouped on the code as written, and only then standardized
ProcessEmdat(f) ==
  IF ~f.present \/ f.listing = <<>> \/ ~FirstFile(f.listing).has_keys
  THEN EmptyFrame(<<"iso3", "year">>)
  ELSE LET emdat_df == FirstFile(f.listing)
           in_range == SelectSeq(emdat_df.events, LAMBDA r : InYearRange(r.year))
           filled == [i \in 1..Len(in_range) |-> EmdatFillNa(in_range[i])]
           emdat_agg ==
             [cols |-> <<"iso3", "year">> \o emdat_numeric_cols \o <<"emdat_event_count">>,
              rows |-> Aggregate(filled, EmdatAgg)]
       IN DropNaIso3(standardize_iso3(emdat_agg))

-----------------------------------------------------------------------------
(* 4. GDACS *)

GREEN == <<"G", "R", "E", "E", "N">>
ORANGE == <<"O", "R", "A", "N", "G", "E">>
RED == <<"R", "E", "D">>

GdacsAlert(code, year, type, level, score) ==
  ("iso3" :> code) @@ ("year" :> year) @@ ("disaster_type" :> type)
    @@ ("alertlevel" :> level) @@ ("alertscore" :> score)

\* Series.str.upper(): a missing level stays missing
LevelUpper(level) == IF level = NaN THEN NaN ELSE StrUpper(level)

\* .map(alert_weights).fillna(1)
severity_weight(level) ==
  LET u == LevelUpper(level)
      mapped == CASE u = GREEN -> Num(1) [] u = ORANGE -> Num(2) [] u = RED -> Num(3)
                  [] OTHER -> NULL
  IN FillNa(mapped, Num(1))

IsLevel(level, which) == IF LevelUpper(level) = which THEN Num(1) ELSE Num(0)

GdacsNominal ==
  [present |-> TRUE,
   alerts |-> <<GdacsAlert(USA, 2010, "Flood", ORANGE, Num(2)),
                GdacsAlert(FRA, 2010, "Flood", <<"g", "r", "e", "e", "n">>, Num(1)),
                GdacsAlert(S4("f", "r", "a", " "), 2010, "Earthquake", RED, NULL),
                GdacsAlert(FRA, 2010, "Earthquake", NaN, Num(1)),
                GdacsAlert(USA, YearNA, "Flood", RED, Num(3))>>]

GdacsInputs ==
  { GdacsNominal, Unreadable,
    [present |-> TRUE,
     alerts |-> <<GdacsAlert(USA, 2011, "Flood", <<"R", "e", "d">>, Num(3)),
                  GdacsAlert(USA, 2011, "Flood", S1("1"), NULL),
                  GdacsAlert(NaN, 2010, "Flood", RED, Num(3))>>],
    [present |-> TRUE,
     alerts |-> <<GdacsAlert(USA, 2010, "Flood", NaN, Num(2)),
                  GdacsAlert(USA, 2010, "Earthquake", NaN, NULL)>>] }

gdacs_types == <<"Earthquake", "Flood">>

TypeCountCol(type) ==
  CASE type = "Earthquake" -> "gdacs_earthquake_count" [] OTHER -> "gdacs_flood_count"

GdacsAgg(k, m) ==
  ("iso3" :> k.iso3) @@ ("year" :> k.year)
    @@ ("gdacs_disaster_count" :> Num(Len(m)))
    @@ ("gdacs_red_alerts" :> SumSeq([i \in 1..Len(m) |-> IsLevel(m[i].alertlevel, RED)]))
    @@ ("gdacs_orange_alerts" :> SumSeq([i \in 1..Len(m) |-> IsLevel(m[i].alertlevel, ORANGE)]))
    @@ ("gdacs_avg_alert_score" :> SeriesMean(Cells(m, "alertscore")))
    @@ ("gdacs_severity_weight" :>
          SeriesMean([i \in 1..Len(m) |-> severity_weight(m[i].alertlevel)]))

\* groupby(['iso3', 'year', 'disaster_type']).size().unstack(fill_value=0)
GdacsTypeCounts(rows, types) ==
  [cols |-> <<"iso3", "year">> \o [i \in 1..Len(types) |-> TypeCountCol(types[i])],
   rows |-> Aggregate(rows,
              LAMBDA k, m :
                [x \in {"iso3", "year"} \cup {TypeCountCol(types[i]) : i \in 1..Len(types)} |->
                   IF x = "iso3" THEN k.iso3
                   ELSE IF x = "year" THEN k.year
                   ELSE Num(Len(SelectSeq(m, LAMBDA r : TypeCountCol(r.disaster_type) = x)))])]

\* here the codes are standardized before the grouping
\* alertlevel.str raises on a column that holds no text at all (every level
\* missing makes it a float column); the except clause binds the empty frame
GdacsRaises(alerts) ==
  alerts # <<>> /\ \A i \in 1..Len(alerts) : alerts[i].alertlevel = NaN

ProcessGdacs(f) ==
  IF ~f.present \/ GdacsRaises(f.alerts) THEN EmptyFrame(<<"iso3", "year">>)
  ELSE LET combined ==
             FilterYears(standardize_iso3(
               [cols |-> <<"iso3", "year", "disaster_type", "alertlevel", "alertscore">>,
                rows |-> f.alerts]))
           types == SelectSeq(gdacs_types,
                      LAMBDA t : \E i \in 1..Len(combined.rows) :
                                    combined.rows[i].iso3 # NaN
                                    /\ combined.rows[i].disaster_type = t)
           gdacs_agg ==
             [cols |-> <<"iso3", "year", "gdacs_disaster_count", "gdacs_red_alerts",
                         "gdacs_orange_alerts", "gdacs_avg_alert_score",
                         "gdacs_severity_weight">>,
              rows |-> Aggregate(combined.rows, GdacsAgg)]
       IN DropNaIso3(MergeLeft(gdacs_agg, GdacsTypeCounts(combined.rows, types)))

-----------------------------------------------------------------------------
(* pivot_table(index=['iso3', 'year'], columns=indicator, values=value) *)

LongRec(code, year, indicator, v) ==
  ("iso3" :> code) @@ ("year" :> year) @@ ("indicator" :> indicator) @@ ("value" :> v)

\* one block of long rows per year column of a wide indicator file
RECURSIVE MeltSeries(_, _)
MeltSeries(series, cols) ==
  IF cols = <<>> THEN <<>>
  ELSE [i \in 1..Len(series) |->
          LongRec(series[i].iso3, ToNumericYear(Head(cols)), series[i].indicator,
                  series[i].cells[Head(cols)])]
       \o MeltSeries(series, Tail(cols))

\* the cells are the means of the groups; a group without a value and a column
\* without a value are dropped; the columns come out in the order of their codes
\* (name: the dict that renames the indicator codes)
PivotTable(long, order, name) ==
  LET valued == SelectSeq(long, LAMBDA r : NotNull(r.value))
      grouped == SelectSeq(valued, LAMBDA r : r.iso3 # NaN /\ r.year # YearNA)
      inds == SelectSeq(order, LAMBDA c : \E i \in 1..Len(grouped) : grouped[i].indicator = c)
      names == [i \in 1..Len(inds) |-> name[inds[i]]]
  IN [cols |-> <<"iso3", "year">> \o names,
      rows |-> Aggregate(grouped,
                 LAMBDA k, m :
                   [x \in {"iso3", "year"} \cup Range(names) |->
                      IF x = "iso3" THEN k.iso3
                      ELSE IF x = "year" THEN k.year
                      ELSE SeriesMean(Cells(SelectSeq(m, LAMBDA r : r.indicator \in DOMAIN name
                                                              /\ name[r.indicator] = x),
                                            "value"))])]

Series(code, indicator, v2010, v2011) ==
  [iso3 |-> code, indicator |-> indicator,
   cells |-> (H1999 :> Num(1)) @@ (H2010 :> v2010) @@ (H2011 :> v2011)]

-----------------------------------------------------------------------------
(* 5. IMF WEO *)

\* SERIES_CODE.str[:3]
Prefix3(code) == IF Len(code) <= 3 THEN code ELSE SubSeq(code, 1, 3)

\* three of the target indicators, in the order of their codes; the other
\* four (inflation, unemployment, revenue, debt) go the same way
weo_target_order == <<"LP", "NGDPDPC", "NGDP_RPCH">>

WeoName(ind) ==
  CASE ind = "NGDP_RPCH" -> "gdp_growth_imf"
    [] ind = "NGDPDPC" -> "gdp_per_capita_imf"
    [] OTHER -> "population_imf"

WeoFile(series) ==
  [present |-> TRUE, columns |-> <<H1999, H2010, H2011>>, series |-> series]

WeoNominal ==
  WeoFile(<<Series(USA, "NGDPDPC", Num(6000), Num(7000)),
            Series(S4("F", "R", "A", "."), "NGDPDPC", Num(900), Num(900)),
            Series(USA, "NGDP_RPCH", Num(1), NULL),
            Series(FRA, "NGDP_RPCH", NULL, Num(4)),
            Series(USA, "BCA", Num(3), Num(3))>>)

WeoInputs ==
  { WeoNominal, Unreadable,
    WeoFile(<<Series(USA, "NGDPDPC", Num(6000), NULL),
              Series(usa, "NGDPDPC", Num(6500), NULL)>>),
    WeoFile(<<Series(USA, "BCA", Num(3), Num(3))>>) }

ProcessWeo(f) ==
  IF ~f.present THEN EmptyFrame(<<"iso3", "year">>)
  ELSE LET coded == [i \in 1..Len(f.series) |->
                       [f.series[i] EXCEPT !.iso3 = Prefix3(@)]]
           weo_filtered == SelectSeq(coded, LAMBDA r : r.indicator \in Range(weo_target_order))
           available_year_cols == SelectSeq(year_cols, LAMBDA y : y \in Range(f.columns))
           weo_long == MeltSeries(weo_filtered, available_year_cols)
       IN standardize_iso3(PivotTable(weo_long, weo_target_order,
                                     [c \in Range(weo_target_order) |-> WeoName(c)]))

-----------------------------------------------------------------------------
(* 6. World Bank WDI *)

\* the four target indicators the post-processing reads, in the order of
\* their codes; the other sixteen go the same way
wdi_target_order == <<"NY.GDP.MKTP.KD.ZG", "NY.GDP.PCAP.KD", "SI.POV.GINI", "SP.POP.TOTL">>

WdiName(ind) ==
  CASE ind = "NY.GDP.MKTP.KD.ZG" -> "gdp_growth"
    [] ind = "NY.GDP.PCAP.KD" -> "gdp_per_capita"
    [] ind = "SI.POV.GINI" -> "gini_index"
    [] OTHER -> "population"

WdiFile(series) ==
  [present |-> TRUE, columns |-> <<H1999, H2010, H2011>>, series |-> series]

WdiNominal ==
  WdiFile(<<Series(USA, "NY.GDP.PCAP.KD", Num(5000), NULL),
            Series(FRA, "NY.GDP.PCAP.KD", Num(0), NULL),
            Series(USA, "SP.POP.TOTL", Num(1000000), NULL),
            Series(FRA, "SP.POP.TOTL", Num(2000000), Num(2000000)),
            Series(USA, "NY.GDP.MKTP.KD.ZG", Num(2), Num(3)),
            Series(USA, "SI.POV.GINI", Num(40), NULL),
            Series(USA, "SP.DYN.LE00.IN", Num(78), Num(78))>>)

WdiInputs ==
  { WdiNominal, Unreadable,
    \* no population series
    WdiFile(<<Series(USA, "NY.GDP.PCAP.KD", Num(5000), Num(5100)),
              Series(FRA, "NY.GDP.MKTP.KD.ZG", Num(1), Num(2))>>),
    \* no target indicator at all
    WdiFile(<<Series(USA, "SP.DYN.LE00.IN", Num(78), Num(78))>>),
    WdiFile(<<Series(USA, "SP.POP.TOTL", Num(1000000), Num(1000000)),
              Series(usa, "SP.POP.TOTL", Num(500000), NULL),
              Series(S2("N", "A"), "SP.POP.TOTL", Num(7), NULL),
              Series(USA, "NY.GDP.PCAP.KD", Num(0 - 5000), Num(20000))>>) }

ProcessWdi(f) ==
  IF ~f.present THEN EmptyFrame(<<"iso3", "year">>)
  ELSE LET chunks == SelectSeq(f.series, LAMBDA r : r.indicator \in Range(wdi_target_order))
           available_years == SelectSeq(year_cols, LAMBDA y : y \in Range(f.columns))
           wdi_long == MeltSeries(chunks, available_years)
       IN IF chunks = <<>> THEN EmptyFrame(<<"iso3", "year">>)
          ELSE standardize_iso3(PivotTable(wdi_long, wdi_target_order,
                                          [c \in Range(wdi_target_order) |-> WdiName(c)]))

-----------------------------------------------------------------------------
(* 7. HDR *)

HdrFiles(codes) ==
  [present |-> TRUE,
   hdi |-> WideFile(codes, <<<<Rat(9, 10), NULL>>, <<Rat(4, 5), NULL>>>>),
   mys |-> WideFile(codes, <<<<Num(13), NULL>>, <<NULL, NULL>>>>),
   hdi_cols |-> <<H1999, H2010, H2011>>,
   mys_cols |-> <<H2010, H2011>>]

HdrNominal == HdrFiles(<<USA, FRA>>)

HdrInputs ==
  { HdrNominal, Unreadable,
    [HdrNominal EXCEPT !.mys_cols = <<>>],
    HdrFiles(<<USA, usa>>),
    HdrFiles(<<S3("n", "a", "n"), NaN>>) }

\* hdi_YYYY columns melted, then each further component left-merged onto them
\* on the code as written; of the components (life expectancy, expected and
\* mean years of schooling, GNI) the one the post-processing reads is kept
ProcessHdr(f) ==
  IF ~f.present THEN EmptyFrame(<<"iso3", "year", "hdi">>)
  ELSE LET hdr_long == FilterYears(melt_wide_to_long(f.hdi, f.hdi_cols, "hdi"))
           mys_long ==
             FilterYears(melt_wide_to_long(f.mys, f.mys_cols, "mean_years_schooling"))
           merged == IF f.mys_cols = <<>> THEN hdr_long ELSE MergeLeft(hdr_long, mys_long)
       IN DropNaIso3(standardize_iso3(merged))

-----------------------------------------------------------------------------
(* 8. WGI *)

wgi_order == <<"cc", "ge", "pv", "rl", "rq", "va">>

\* gov_renames
WgiName(ind) ==
  CASE ind = "va" -> "wgi_voice_accountability"
    [] ind = "pv" -> "wgi_political_stability"
    [] ind = "ge" -> "wgi_gov_effectiveness"
    [] ind = "rq" -> "wgi_regulatory_quality"
    [] ind = "rl" -> "wgi_rule_of_law"
    [] OTHER -> "wgi_control_corruption"

\* list(gov_renames.values())
gov_rename_values ==
  << "wgi_voice_accountability", "wgi_political_stability", "wgi_gov_effectiveness",
     "wgi_regulatory_quality", "wgi_rule_of_law", "wgi_control_corruption" >>

WgiNominal ==
  [present |-> TRUE,
   rows |-> <<LongRec(USA, 2010, "ge", Num(1)), LongRec(USA, 2010, "cc", Num(0)),
              LongRec(FRA, 2010, "ge", Rat(1, 2)), LongRec(FRA, 2011, "ge", NULL),
              LongRec(USA, 1999, "ge", Num(2))>>]

WgiInputs ==
  { WgiNominal, Unreadable,
    [present |-> TRUE,
     rows |-> <<LongRec(usa, 2010, "ge", Num(1)), LongRec(USA, 2010, "ge", Num(2)),
                LongRec(S4("n", "u", "l", "l"), 2010, "ge", Num(2))>>] }

ProcessWgi(f) ==
  IF ~f.present THEN EmptyFrame(<<"iso3", "year">>)
  ELSE LET wgi_df == SelectSeq(f.rows, LAMBDA r : InYearRange(r.year))
           wgi_pivot == PivotTable(wgi_df, wgi_order, [c \in Range(wgi_order) |-> WgiName(c)])
           gov_cols == SelectSeq(gov_rename_values, LAMBDA c : HasCol(wgi_pivot, c))
           composite ==
             [i \in 1..Len(wgi_pivot.rows) |->
                SeriesMean([j \in 1..Len(gov_cols) |-> wgi_pivot.rows[i][gov_cols[j]]])]
           with_composite ==
             IF gov_cols = <<>> THEN wgi_pivot ELSE SetCol(wgi_pivot, "wgi_composite", composite)
       IN DropNaIso3(standardize_iso3(with_composite))

-----------------------------------------------------------------------------
(* 9. INFORM *)

\* the target indicators the post-processing reads, in the order of the dict
inform_order == <<"HA", "VU", "CC">>

InformName(ind) ==
  CASE ind = "HA" -> "inform_hazard"
    [] ind = "VU" -> "inform_vulnerability"
    [] OTHER -> "inform_coping_capacity"

InformNominal ==
  [present |-> TRUE,
   rows |-> <<LongRec(USA, 2011, "HA", Num(3)), LongRec(USA, 2011, "VU", Num(2)),
              LongRec(USA, 2011, "CC", Num(4)), LongRec(FRA, 2015, "HA", Num(5)),
              LongRec(USA, 2011, "XX", Num(9))>>]

InformInputs ==
  { InformNominal, Unreadable,
    [present |-> TRUE,
     rows |-> <<LongRec(usa, 2010, "VU", Num(6)), LongRec(FRA, 2011, "CC", Num(2)),
                LongRec(FRA, 2011, "CC", Num(3))>>],
    [present |-> TRUE, rows |-> <<LongRec(USA, 2011, "XX", Num(9))>>] }

\* inform_df[inform_df['IndicatorId'] == id][['Iso3', 'INFORMYear', 'IndicatorScore']]
InformFrame(rows, ind) ==
  LET sel == SelectSeq(rows, LAMBDA r : r.indicator = ind)
  IN [cols |-> <<"iso3", "year", InformName(ind)>>,
      rows |-> [i \in 1..Len(sel) |->
                  Rec3(sel[i].iso3, sel[i].year, InformName(ind), sel[i].value)]]

RECURSIVE OuterMergeAll(_, _)
OuterMergeAll(acc, frames) ==
  IF frames = <<>> THEN acc ELSE OuterMergeAll(MergeOuter(acc, Head(frames)), Tail(frames))

ProcessInform(f) ==
  IF ~f.present THEN EmptyFrame(<<"iso3", "year">>)
  ELSE LET inds == SelectSeq(inform_order,
                     LAMBDA c : \E i \in 1..Len(f.rows) : f.rows[i].indicator = c)
           inform_dfs == [i \in 1..Len(inds) |-> InformFrame(f.rows, inds[i])]
       IN IF inform_dfs = <<>> THEN EmptyFrame(<<"iso3", "year">>)
          ELSE DropNaIso3(standardize_iso3(FilterYears(
                 OuterMergeAll(Head(inform_dfs), Tail(inform_dfs)))))

-----------------------------------------------------------------------------
(* 10. FTS humanitarian funding *)

\* destLocations is given as the pieces str.split(',') yields
FtsFlow(locations, year, amount) ==
  [destLocations |-> locations, budgetYear |-> year, amountUSD |-> amount]

FtsFile(flows) == [has_cols |-> TRUE, flows |-> flows]

FtsNominal ==
  [present |-> TRUE,
   files |-> <<FtsFile(<<FtsFlow(<<USA, S4(" ", "F", "R", "A"), S2("E", "U")>>, 2010, Num(100)),
                         FtsFlow(<<USA>>, 2010, Num(30)),
                         FtsFlow(<<FRA>>, 1999, Num(10)),
                         FtsFlow(<<S2("E", "U"), <<>>>>, 2011, Num(10)),
                         FtsFlow(NaN, 2011, Num(10)),
                         FtsFlow(<<FRA>>, 2011, NULL)>>)>>]

FtsInputs ==
  { FtsNominal, [present |-> TRUE, files |-> <<>>],
    [present |-> TRUE, files |-> <<[has_cols |-> FALSE, flows |-> <<>>]>>],
    [present |-> TRUE,
     files |-> <<FtsFile(<<FtsFlow(<<USA, usa>>, 2010, Num(100)),
                           FtsFlow(<<S3("n", "a", "n")>>, 2011, Num(10)),
                           FtsFlow(<<FRA>>, YearNA, Num(10))>>)>>] }

\* [loc.strip() for loc in locations if loc.strip() and len(loc.strip()) == 3]
FtsLocations(flow) ==
  LET stripped == [i \in 1..Len(flow.destLocations) |-> StrStrip(flow.destLocations[i])]
  IN SelectSeq(stripped, LAMBDA loc : Len(loc) = 3)

\* the amount of a flow is split equally among its recipient countries
FtsExpand(flow) ==
  LET locations == FtsLocations(flow)
  IN [i \in 1..Len(locations) |->
        Rec3(locations[i], flow.budgetYear, "funding_usd",
             RDiv(flow.amountUSD, Num(Len(locations))))]

RECURSIVE FtsExpandAll(_)
FtsExpandAll(flows) ==
  IF flows = <<>> THEN <<>> ELSE FtsExpand(Head(flows)) \o FtsExpandAll(Tail(flows))

FtsFileRows(file) ==
  IF ~file.has_cols THEN <<>>
  ELSE FtsExpandAll(SelectSeq(file.flows,
         LAMBDA r : r.destLocations # NaN /\ NotNull(r.amountUSD)))

RECURSIVE FtsAllRows(_)
FtsAllRows(fts_files) ==
  IF fts_files = <<>> THEN <<>>
  ELSE FtsFileRows(Head(fts_files)) \o FtsAllRows(Tail(fts_files))

FtsAgg(k, m) ==
  Rec3(k.iso3, k.year, "humanitarian_funding_usd", SeriesSum(Cells(m, "funding_usd")))

ProcessFts(f) ==
  LET fts_combined == FtsAllRows(f.files)
      fts_agg == [cols |-> <<"iso3", "year", "humanitarian_funding_usd">>,
                  rows |-> Aggregate(fts_combined, FtsAgg)]
  IN IF fts_combined = <<>> THEN EmptyFrame(<<"iso3", "year", "humanitarian_funding_usd">>)
     ELSE FilterYears(standardize_iso3(fts_agg))

-----------------------------------------------------------------------------
(* 11. DesInventar *)

\* an element without text is a missing cell; malformed marks a record whose
\* text int() rejects
DesRecord(year, deaths, affected) ==
  [year |-> year, deaths |-> deaths, affected |-> affected,
   houses_destroyed |-> NULL, houses_damaged |-> Num(2), malformed |-> FALSE]

DesFolder(name, records) == [name |-> name, records |-> records]

DesNominal ==
  [present |-> TRUE,
   folders |-> <<DesFolder(S3("f", "r", "a"),
                           <<DesRecord(2011, Num(5), Num(100)), DesRecord(1999, Num(9), Num(9)),
                             DesRecord(YearNA, Num(9), Num(9)), DesRecord(2011, NULL, NULL),
                             [DesRecord(2011, Num(7), Num(7)) EXCEPT !.malformed = TRUE]>>),
                 DesFolder(S3("A", "R", "2"), <<DesRecord(2010, Num(1), Num(1))>>)>>]

DesInputs ==
  { DesNominal, [present |-> FALSE, folders |-> <<>>],
    [present |-> TRUE, folders |-> <<DesFolder(USA, <<DesRecord(1999, Num(9), Num(9))>>)>>],
    [present |-> TRUE,
     folders |-> <<DesFolder(USA, <<DesRecord(2010, Num(3), Num(1000))>>),
                   DesFolder(S2("N", "A"), <<DesRecord(2010, Num(1), Num(1))>>)>>] }

\* code_mapping.get(country_code, country_code)
code_mapping(c) == IF c = S3("A", "R", "2") THEN S3("A", "R", "M") ELSE c

MissingAsZero(v) == IF IsNull(v) THEN Num(0) ELSE v

DesFolderRows(folder) ==
  LET country_code == code_mapping(StrUpper(folder.name))
      kept == SelectSeq(folder.records,
                LAMBDA r : r.year # YearNA /\ r.year # 0 /\ InYearRange(r.year) /\ ~r.malformed)
  IN [i \in 1..Len(kept) |->
        ("iso3" :> country_code) @@ ("year" :> kept[i].year)
          @@ ("deaths" :> MissingAsZero(kept[i].deaths))
          @@ ("affected" :> MissingAsZero(kept[i].affected))
          @@ ("houses_destroyed" :> MissingAsZero(kept[i].houses_destroyed))
          @@ ("houses_damaged" :> MissingAsZero(kept[i].houses_damaged))
          @@ ("event_count" :> Num(1))]

RECURSIVE DesAllRows(_)
DesAllRows(folders) ==
  IF folders = <<>> THEN <<>> ELSE DesFolderRows(Head(folders)) \o DesAllRows(Tail(folders))

desinventar_cols ==
  << "desinventar_events", "desinventar_deaths", "desinventar_affected",
     "desinventar_houses_destroyed", "desinventar_houses_damaged" >>

DesAgg(k, m) ==
  ("iso3" :> k.iso3) @@ ("year" :> k.year)
    @@ ("desinventar_events" :> SeriesSum(Cells(m, "event_count")))
    @@ ("desinventar_deaths" :> SeriesSum(Cells(m, "deaths")))
    @@ ("desinventar_affected" :> SeriesSum(Cells(m, "affected")))
    @@ ("desinventar_houses_destroyed" :> SeriesSum(Cells(m, "houses_destroyed")))
    @@ ("desinventar_houses_damaged" :> SeriesSum(Cells(m, "houses_damaged")))

ProcessDesinventar(f) ==
  LET desinventar_all == DesAllRows(f.folders)
  IN IF ~f.present \/ desinventar_all = <<>> THEN EmptyFrame(<<"iso3", "year">>)
     ELSE standardize_iso3([cols |-> <<"iso3", "year">> \o desinventar_cols,
                            rows |-> Aggregate(desinventar_all, DesAgg)])

-----------------------------------------------------------------------------
(* 12. Barro-Lee *)

BarroLeeFile(rows) == [present |-> TRUE, has_WBcode |-> TRUE, has_yr_sch |-> TRUE, rows |-> rows]

BarroLeeNominal ==
  BarroLeeFile(<<Rec3(USA, 2010, "years_of_schooling", Num(12)),
                 Rec3(FRA, 2010, "years_of_schooling", Num(11)),
                 Rec3(USA, 1995, "years_of_schooling", Num(10))>>)

BarroLeeInputs ==
  { BarroLeeNominal, Unreadable,
    [BarroLeeNominal EXCEPT !.has_WBcode = FALSE],
    [BarroLeeNominal EXCEPT !.has_yr_sch = FALSE],
    BarroLeeFile(<<Rec3(USA, 2010, "years_of_schooling", Num(12)),
                   Rec3(S4("u", "s", "a", " "), 2010, "years_of_schooling", Num(8)),
                   Rec3(NaN, 2010, "years_of_schooling", Num(8))>>) }

\* of the education columns yr_sch is kept;
\* without a WBcode column the selection of 'iso3' raises, and the source is empty
ProcessBarroLee(f) ==
  IF ~f.present \/ ~f.has_WBcode THEN EmptyFrame(<<"iso3", "year">>)
  ELSE LET cols_to_keep ==
             <<"iso3", "year">> \o (IF f.has_yr_sch THEN <<"years_of_schooling">> ELSE <<>>)
           barrolee_filtered == Project([cols |-> <<>>, rows |-> f.rows], cols_to_keep)
       IN DropNaIso3(standardize_iso3(FilterYears(barrolee_filtered)))

-----------------------------------------------------------------------------
(* 13. Gini index (WID) *)

GiniFile(rows) == [present |-> TRUE, has_Code |-> TRUE, has_gini |-> TRUE, rows |-> rows]

GiniNominal ==
  GiniFile(<<Rec3(USA, 2010, "gini_wid", Num(41)), Rec3(FRA, 2010, "gini_wid", Num(30)),
             Rec3(FRA, 2011, "gini_wid", NULL), Rec3(NaN, 2010, "gini_wid", Num(50)),
             Rec3(USA, 1990, "gini_wid", Num(45))>>)

GiniInputs ==
  { GiniNominal, [present |-> FALSE],
    [GiniNominal EXCEPT !.has_Code = FALSE],
    [GiniNominal EXCEPT !.has_gini = FALSE],
    GiniFile(<<Rec3(USA, 2010, "gini_wid", Num(41)), Rec3(usa, 2010, "gini_wid", Num(42))>>) }

ProcessGini(f) ==
  IF ~f.present \/ ~f.has_Code \/ ~f.has_gini THEN EmptyFrame(<<"iso3", "year">>)
  ELSE LET gini_filtered == FilterYears([cols |-> <<"iso3", "year", "gini_wid">>,
                                         rows |-> f.rows])
           gini_final == standardize_iso3(gini_filtered)
       IN [gini_final EXCEPT
             !.rows = SelectSeq(@, LAMBDA r : r.iso3 # NaN /\ NotNull(r.gini_wid))]

-----------------------------------------------------------------------------
(* Helpers of the post-processing *)

\* variant: a zero or missing denominator gives 0 instead of a missing value
DivideZeroFill(numerator, denominator) ==
  IF IsNull(denominator) \/ IsZero(denominator) THEN Num(0) ELSE RDiv(numerator, denominator)

\* np.where((denominator == 0) | isna(denominator), nan, numerator / denominator)
safe_divide(numerator, denominator) ==
  IF IsNull(denominator) \/ IsZero(denominator) THEN NULL ELSE RDiv(numerator, denominator)

\* the column with its missing cells filled, or a column of the default
safe_col(df, col, default) ==
  [i \in 1..NRows(df) |-> IF HasCol(df, col) THEN FillNa(df.rows[i][col], default) ELSE default]

\* variant: a flat series is given the bottom of the scale, not the midpoint
NormalizeFlatZero(series) ==
  LET min_val == SeriesMin(series)
      max_val == SeriesMax(series)
  IN IF NotNull(min_val) /\ max_val = min_val
     THEN [i \in 1..Len(series) |-> Num(0)]
     ELSE [i \in 1..Len(series) |-> RDiv(RSub(series[i], min_val), RSub(max_val, min_val))]

\* variant: no midpoint for a flat series, and the span is taken as the maximum
NormalizeByMax(series) ==
  LET min_val == SeriesMin(series)
      max_val == SeriesMax(series)
  IN IF IsNull(max_val) \/ IsZero(max_val)
     THEN [i \in 1..Len(series) |-> Num(0)]
     ELSE [i \in 1..Len(series) |-> RDiv(RSub(series[i], min_val), max_val)]

\* a constant 0.5 when all values are equal, else (x - min) / (max - min);
\* min and max skip missing values, and nan == nan is false
normalize_0_1(series) ==
  LET min_val == SeriesMin(series)
      max_val == SeriesMax(series)
  IN IF NotNull(min_val) /\ max_val = min_val
     THEN [i \in 1..Len(series) |-> Rat(1, 2)]
     ELSE [i \in 1..Len(series) |-> RDiv(RSub(series[i], min_val), RSub(max_val, min_val))]

\* Series.clip(lower=lo, upper=hi); NULL for no bound; a missing value stays missing
Clip(v, lo, hi) ==
  IF IsNull(v) THEN NULL
  ELSE IF NotNull(lo) /\ RLess(v, lo) THEN lo
  ELSE IF NotNull(hi) /\ RLess(hi, v) THEN hi
  ELSE v

ClipAll(series, lo, hi) == [i \in 1..Len(series) |-> Clip(series[i], lo, hi)]

Times(series, k) == [i \in 1..Len(series) |-> RMul(series[i], k)]

Plus(a, b) == [i \in 1..Len(a) |-> RAdd(a[i], b[i])]

\* Series.astype(int) on values without a missing cell
AsInt(v) == Num(v[1] \div v[2])

\* a column of missing values: pd.Series(np.nan, index=final.index)
NanSeries(df) == [i \in 1..NRows(df) |-> NULL]

ColumnOrNan(df, col) == IF HasCol(df, col) THEN Column(df, col) ELSE NanSeries(df)

-----------------------------------------------------------------------------
(* 2. Consolidate disaster impact data *)

HasAny(df, cols) == \E c \in cols : HasCol(df, c)

\* variant: the GDACS count is added to the sum instead of replacing a zero
EventsPlusGdacs(df) ==
  [i \in 1..NRows(df) |->
     RAdd(AsInt(RAdd(safe_col(df, "emdat_event_count", Num(0))[i],
                     safe_col(df, "desinventar_events", Num(0))[i])),
          safe_col(df, "gdacs_disaster_count", Num(0))[i])]

total_disaster_events(df) ==
  LET total == [i \in 1..NRows(df) |->
                  AsInt(RAdd(safe_col(df, "emdat_event_count", Num(0))[i],
                             safe_col(df, "desinventar_events", Num(0))[i]))]
      \* .where(total > 0, GDACS count)
      fallback == safe_col(df, "gdacs_disaster_count", Num(0))
  IN [i \in 1..NRows(df) |-> IF RLess(Num(0), total[i]) THEN total[i] ELSE fallback[i]]

ConsolidateDisaster(df) ==
  LET d1 == IF HasAny(df, {"emdat_deaths", "desinventar_deaths"})
            THEN SetCol(df, "total_disaster_deaths",
                        Plus(safe_col(df, "emdat_deaths", Num(0)),
                             safe_col(df, "desinventar_deaths", Num(0))))
            ELSE df
      d2 == IF HasAny(d1, {"emdat_affected", "desinventar_affected"})
            THEN SetCol(d1, "total_disaster_affected",
                        Plus(safe_col(d1, "emdat_affected", Num(0)),
                             safe_col(d1, "desinventar_affected", Num(0))))
            ELSE d1
  IN IF HasAny(d2, {"emdat_event_count", "desinventar_events", "gdacs_disaster_count"})
     THEN SetCol(d2, "total_disaster_events", total_disaster_events(d2))
     ELSE d2

-----------------------------------------------------------------------------
(* 3./4. Consolidate economic and education indicators *)

\* variant with the priority reversed: secondary.fillna(primary)
CoalesceSecondaryFirst(primary, secondary) ==
  IF secondary # <<>> THEN secondary ELSE primary

\* primary.fillna(secondary), cell by cell
Coalesce(primary, secondary) == IF NotNull(primary) THEN primary ELSE secondary

\* variant: the fallback is written into the primary column as well
\* (fillna in place)
ConsolidateInPlace(df, primary, secondary, best) ==
  IF HasCol(df, primary) /\ HasCol(df, secondary)
  THEN LET filled == [i \in 1..NRows(df) |->
                        Coalesce(df.rows[i][primary], df.rows[i][secondary])]
       IN SetCol(SetCol(df, primary, filled), best, filled)
  ELSE IF HasCol(df, primary) THEN SetCol(df, best, Column(df, primary))
  ELSE IF HasCol(df, secondary) THEN SetCol(df, best, Column(df, secondary))
  ELSE df

\* best = primary with the secondary as fallback; a source whose column is
\* absent is left out; with neither column no best column is made
Consolidate(df, primary, secondary, best) ==
  IF HasCol(df, primary) /\ HasCol(df, secondary)
  THEN SetCol(df, best, [i \in 1..NRows(df) |->
                           Coalesce(df.rows[i][primary], df.rows[i][secondary])])
  ELSE IF HasCol(df, primary) THEN SetCol(df, best, Column(df, primary))
  ELSE IF HasCol(df, secondary) THEN SetCol(df, best, Column(df, secondary))
  ELSE df

ConsolidateEconomic(df) ==
  Consolidate(
    Consolidate(
      Consolidate(df, "gdp_per_capita", "gdp_per_capita_imf", "gdp_per_capita_best"),
      "gdp_growth", "gdp_growth_imf", "gdp_growth_best"),
    "gini_index", "gini_wid", "gini_best")

ConsolidateEducation(df) ==
  Consolidate(df, "mean_years_schooling", "years_of_schooling", "education_years_best")

-----------------------------------------------------------------------------
(* 5. DII - Disaster Impact Index *)

\* variant without the weight on the affected share: ((F + A) / GDP_pc) * S
DIIUnweighted(fatalities_per_million, affected_pct, gdp_pc, severity) ==
  RMul(safe_divide(RAdd(FillNa(fatalities_per_million, Num(0)), FillNa(affected_pct, Num(0))),
                   gdp_pc),
       severity)

\* ((F + 4A) / GDP_pc) * S on one row; missing F and A count as 0
DIIValue(fatalities_per_million, affected_pct, gdp_pc, severity) ==
  RMul(safe_divide(RAdd(FillNa(fatalities_per_million, Num(0)),
                        RMul(Num(DII_AFFECTED_WEIGHT), FillNa(affected_pct, Num(0)))),
                   gdp_pc),
       severity)

\* only computed when the table has a population column
CalcDII(df) ==
  IF ~HasCol(df, "population") THEN df
  ELSE LET deaths == safe_col(df, "total_disaster_deaths", Num(0))
           affected == safe_col(df, "total_disaster_affected", Num(0))
           fpm == [i \in 1..NRows(df) |->
                     safe_divide(RMul(deaths[i], Num(1000000)), df.rows[i]["population"])]
           apct == [i \in 1..NRows(df) |->
                      safe_divide(RMul(affected[i], Num(100)), df.rows[i]["population"])]
           severity == safe_col(df, "gdacs_severity_weight", Num(1))
           gdp_pc == IF HasCol(df, "gdp_per_capita_best") THEN Column(df, "gdp_per_capita_best")
                     ELSE ColumnOrNan(df, "gdp_per_capita")
           dii == [i \in 1..NRows(df) |-> DIIValue(fpm[i], apct[i], gdp_pc[i], severity[i])]
           d1 == SetCol(SetCol(df, "fatalities_per_million", fpm), "affected_pct", apct)
           d2 == SetCol(d1, "DII", dii)
       IN SetCol(d2, "DII_normalized",
                 Times(normalize_0_1(ClipAll(dii, Num(0), NULL)), Num(100)))

-----------------------------------------------------------------------------
(* 6. RRS - Resilience Recovery Score *)

\* groupby('iso3')[c].diff() on rows sorted by (iso3, year)
GroupDiff(rows, c) ==
  [i \in 1..Len(rows) |->
     IF rows[i].iso3 = NaN \/ i = 1 THEN NULL
     ELSE IF rows[i - 1].iso3 # rows[i].iso3 THEN NULL
     ELSE RSub(rows[i][c], rows[i - 1][c])]

\* np.log1p on an event count, to one decimal
Log1p(n) ==
  CASE n = 0 -> Num(0)
    [] n = 1 -> Rat(7, 10)
    [] n = 2 -> Rat(11, 10)
    [] n = 3 -> Rat(14, 10)
    [] n = 4 -> Rat(16, 10)
    [] n = 5 -> Rat(18, 10)
    [] n = 6 -> Rat(19, 10)
    [] n = 7 -> Rat(21, 10)
    [] n = 8 -> Rat(22, 10)

\* 1 + log1p(disaster_intensity) / 3
recovery_factor(disaster_intensity) ==
  RAdd(Num(1), RDiv(Log1p(disaster_intensity[1]), Num(3)))

\* missing components count as 0.5
RRSValue(gdp_change_norm, hdi_norm, gov_norm, factor) ==
  safe_divide(RAdd(RAdd(FillNa(gdp_change_norm, Rat(1, 2)), FillNa(hdi_norm, Rat(1, 2))),
                   FillNa(gov_norm, Rat(1, 2))),
              factor)

CalcRRS(df) ==
  LET sorted == SortByKey(df)
      gdp_growth_col == IF HasCol(sorted, "gdp_growth_best") THEN "gdp_growth_best"
                        ELSE IF HasCol(sorted, "gdp_growth") THEN "gdp_growth" ELSE ""
      d1 == SetCol(sorted, "gdp_growth_change",
                   IF gdp_growth_col # "" THEN GroupDiff(sorted.rows, gdp_growth_col)
                   ELSE NanSeries(sorted))
      hdi_norm == normalize_0_1(ColumnOrNan(d1, "hdi"))
      gov_col == IF HasCol(d1, "wgi_composite") THEN "wgi_composite"
                 ELSE IF HasCol(d1, "wgi_gov_effectiveness") THEN "wgi_gov_effectiveness"
                 ELSE ""
      gov_norm == normalize_0_1(ColumnOrNan(d1, gov_col))
      gdp_change_norm == normalize_0_1(Column(d1, "gdp_growth_change"))
      disaster_intensity == safe_col(d1, "total_disaster_events", Num(0))
      rrs == [i \in 1..NRows(d1) |->
                RRSValue(gdp_change_norm[i], hdi_norm[i], gov_norm[i],
                         recovery_factor(disaster_intensity[i]))]
  IN SetCol(SetCol(d1, "RRS", rrs), "RRS_normalized",
            Times(normalize_0_1(ClipAll(rrs, Num(0), Num(5))), Num(100)))

-----------------------------------------------------------------------------
(* 7. CRI - Composite Resilience Index *)

\* A / (E / 10 + V + 0.001); missing A and V count as 0.5, missing E as 5
CRIValue(adaptive_capacity, exposure, vulnerability) ==
  safe_divide(FillNa(adaptive_capacity, Rat(1, 2)),
              RAdd(RAdd(RDiv(FillNa(exposure, Num(5)), Num(10)),
                        FillNa(vulnerability, Rat(1, 2))),
                   Rat(1, 1000)))

\* variant: the event-count proxy fills each row without a hazard score
CalcCRIRowFallback(df) ==
  LET readiness == ColumnOrNan(df, "ndgain_readiness")
      adaptive_capacity ==
        IF HasCol(df, "inform_coping_capacity")
        THEN [i \in 1..NRows(df) |->
                FillNa(readiness[i],
                       RDiv(RSub(Num(10), FillNa(df.rows[i]["inform_coping_capacity"], Num(5))),
                            Num(10)))]
        ELSE readiness
      hazard == ColumnOrNan(df, "inform_hazard")
      proxy == Times(normalize_0_1(safe_col(df, "total_disaster_events", Num(0))), Num(10))
      exposure == [i \in 1..NRows(df) |-> FillNa(hazard[i], proxy[i])]
      nd_vulnerability == ColumnOrNan(df, "ndgain_vulnerability")
      vulnerability ==
        IF HasCol(df, "inform_vulnerability")
        THEN [i \in 1..NRows(df) |->
                FillNa(nd_vulnerability[i], RDiv(df.rows[i]["inform_vulnerability"], Num(10)))]
        ELSE nd_vulnerability
      cri == [i \in 1..NRows(df) |->
                CRIValue(adaptive_capacity[i], exposure[i], vulnerability[i])]
  IN SetCol(SetCol(df, "CRI", cri), "CRI_normalized",
            Times(normalize_0_1(ClipAll(cri, Num(0), Num(5))), Num(100)))

CalcCRI(df) ==
  LET readiness == ColumnOrNan(df, "ndgain_readiness")
      adaptive_capacity ==
        IF HasCol(df, "inform_coping_capacity")
        THEN [i \in 1..NRows(df) |->
                FillNa(readiness[i],
                       RDiv(RSub(Num(10), FillNa(df.rows[i]["inform_coping_capacity"], Num(5))),
                            Num(10)))]
        ELSE readiness
      hazard == ColumnOrNan(df, "inform_hazard")
      exposure ==
        IF \A i \in 1..NRows(df) : IsNull(hazard[i])
        THEN Times(normalize_0_1(safe_col(df, "total_disaster_events", Num(0))), Num(10))
        ELSE hazard
      nd_vulnerability == ColumnOrNan(df, "ndgain_vulnerability")
      vulnerability ==
        IF HasCol(df, "inform_vulnerability")
        THEN [i \in 1..NRows(df) |->
                FillNa(nd_vulnerability[i], RDiv(df.rows[i]["inform_vulnerability"], Num(10)))]
        ELSE nd_vulnerability
      cri == [i \in 1..NRows(df) |->
                CRIValue(adaptive_capacity[i], exposure[i], vulnerability[i])]
  IN SetCol(SetCol(df, "CRI", cri), "CRI_normalized",
            Times(normalize_0_1(ClipAll(cri, Num(0), Num(5))), Num(100)))

-----------------------------------------------------------------------------
(* 8. Metadata columns *)

Label(s) == <<s>>

\* Series.map(region_mapping): a code outside the mapping gives NaN
region_mapping(code) ==
  CASE code = USA -> Label("Americas")
    [] code = FRA -> Label("Europe")
    [] code = S3("A", "R", "M") -> Label("Asia")
    [] OTHER -> NaN

\* pd.cut(bins=[0, 1085, 4255, 13205, inf]): right-closed intervals
income_group(gdp) ==
  IF IsNull(gdp) \/ ~RLess(Num(0), gdp) THEN NaN
  ELSE IF RLeq(gdp, Num(1085)) THEN Label("Low")
  ELSE IF RLeq(gdp, Num(4255)) THEN Label("Lower-Middle")
  ELSE IF RLeq(gdp, Num(13205)) THEN Label("Upper-Middle")
  ELSE Label("High")

\* the whole block is skipped when pycountry cannot be imported
AddMetadata(df, importable) ==
  IF ~importable THEN df
  ELSE LET d1 == SetCol(df, "region", [i \in 1..NRows(df) |-> region_mapping(df.rows[i].iso3)])
           gdp_col == IF HasCol(d1, "gdp_per_capita_best") THEN "gdp_per_capita_best"
                      ELSE "gdp_per_capita"
       IN IF HasCol(d1, gdp_col)
          THEN SetCol(d1, "income_group",
                      [i \in 1..NRows(d1) |-> income_group(d1.rows[i][gdp_col])])
          ELSE d1

-----------------------------------------------------------------------------
(* Validation and output files *)

OUTPUT_FILE == "unified_resilience_dataset.csv"
COVERAGE_FILE == "coverage_matrix.csv"
VALIDATION_FILE == "validation_report.txt"

\* isnull() on a cell of column c
IsMissing(c, v) ==
  IF c = "year" THEN v = YearNA
  ELSE IF c \in {"iso3", "region", "income_group"} THEN v = NaN
  ELSE IsNull(v)

NonNullCount(df, c) == Cardinality({i \in 1..NRows(df) : ~IsMissing(c, df.rows[i][c])})

\* one line per column: its share of non-missing cells and their number
coverage_df(df) ==
  { [column |-> c,
     coverage_pct |-> IF NRows(df) = 0 THEN NULL
                      ELSE Rat(100 * NonNullCount(df, c), NRows(df)),
     non_null_count |-> NonNullCount(df, c)] : c \in Range(df.cols) }

key_cols == <<"iso3", "year", "region", "income_group">>

index_cols == <<"DII", "DII_normalized", "RRS", "RRS_normalized", "CRI", "CRI_normalized">>

\* the columns whose name contains 'disaster', 'deaths', 'affected', 'emdat',
\* 'gdacs' or 'desinventar'
disaster_names ==
  { "emdat_deaths", "emdat_affected", "emdat_damage_usd", "emdat_event_count",
    "gdacs_disaster_count", "gdacs_red_alerts", "gdacs_orange_alerts",
    "gdacs_avg_alert_score", "gdacs_severity_weight", "gdacs_earthquake_count",
    "gdacs_flood_count", "desinventar_events", "desinventar_deaths",
    "desinventar_affected", "desinventar_houses_destroyed", "desinventar_houses_damaged",
    "total_disaster_deaths", "total_disaster_affected", "total_disaster_events",
    "affected_pct" }

\* ... 'gdp', 'gini', 'inflation', 'population' or 'income'
economic_names ==
  { "gdp_per_capita_imf", "gdp_growth_imf", "population_imf", "gdp_growth",
    "gdp_per_capita", "gini_index", "population", "gini_wid", "gdp_per_capita_best",
    "gdp_growth_best", "gini_best", "gdp_growth_change", "income_group" }

\* ... 'hdi', 'life_expectancy', 'education', 'schooling', 'literacy' or 'health'
development_names ==
  { "hdi", "mean_years_schooling", "years_of_schooling", "education_years_best" }

\* ... 'wgi'
governance_names == Range(gov_rename_values) \cup {"wgi_composite"}

\* ... 'ndgain', 'inform' or 'ntl'
resilience_names ==
  { "ndgain_score", "ndgain_readiness", "ndgain_vulnerability", "ntl_radiance",
    "ntl_growth", "inform_hazard", "inform_vulnerability", "inform_coping_capacity" }

\* ... 'funding' or 'fts'
funding_names == {"humanitarian_funding_usd"}

RECURSIVE Dedup(_, _)
Dedup(cols, seen) ==
  IF cols = <<>> THEN <<>>
  ELSE IF Head(cols) \in seen THEN Dedup(Tail(cols), seen)
  ELSE <<Head(cols)>> \o Dedup(Tail(cols), seen \cup {Head(cols)})

\* keys, indices, then the column groups in the table's own order, then the rest
final_col_order(df) ==
  LET Of(names) == SelectSeq(df.cols, LAMBDA c : c \in names)
      all_ordered ==
        key_cols \o index_cols \o Of(disaster_names) \o Of(economic_names)
          \o Of(development_names) \o Of(governance_names) \o Of(resilience_names)
          \o Of(funding_names)
      other_cols == SelectSeq(df.cols, LAMBDA c : c \notin Range(all_ordered))
  IN Dedup(SelectSeq(all_ordered \o other_cols, LAMBDA c : HasCol(df, c)), {})

\* the f-string of the report reads final['DII'], final['RRS'] and final['CRI']
ReportRaises(df) == ~HasCol(df, "DII") \/ ~HasCol(df, "RRS") \/ ~HasCol(df, "CRI")

validation_report(df) ==
  [total_rows |-> NRows(df),
   total_columns |-> Len(df.cols),
   unique_countries |-> Cardinality({df.rows[i].iso3 : i \in 1..NRows(df)} \ {NaN}),
   index_values |-> [c \in {"DII", "RRS", "CRI"} |-> NonNullCount(df, c)]]

-----------------------------------------------------------------------------
(* run_diagnostics.py: the coverage matrix and the validation report computed
   from the written table *)

\* the texts pd.read_csv takes for a missing cell, among upper-case codes
csv_na_values == { S3("N", "/", "A"), S3("#", "N", "A") }

\* the table as pd.read_csv gives it back: a code written as one of the
\* missing-value texts is read as a missing cell
ReadUnified(t) ==
  [t EXCEPT !.rows = [i \in 1..Len(t.rows) |->
                        [t.rows[i] EXCEPT !.iso3 = IF @ \in csv_na_values THEN NaN ELSE @]]]

\* one line per column other than the keys
diagnostics_coverage(df) ==
  { [variable |-> c, total_obs |-> NRows(df), non_null_obs |-> NonNullCount(df, c)] :
      c \in Range(df.cols) \ {"iso3", "year"} }

\* df.duplicated(subset=['iso3', 'year'], keep='first').sum(): the rows that
\* repeat the key of an earlier row
dup_count(df) ==
  Cardinality({i \in 1..NRows(df) :
                 \E j \in 1..(i - 1) : /\ df.rows[j].iso3 = df.rows[i].iso3
                                        /\ df.rows[j].year = df.rows[i].year})

DuplicateCheck(df) ==
  IF dup_count(df) > 0 THEN [flag |-> "WARNING", count |-> dup_count(df)]
  ELSE [flag |-> "OK", count |-> 0]

\* set(range(2000, 2024))
expected_years == 2000..2023

YearCheck(actual_years) ==
  LET missing_years == expected_years \ actual_years
  IN IF missing_years # {} THEN [flag |-> "WARNING", missing |-> missing_years]
     ELSE [flag |-> "OK", missing |-> {}]

diagnostics_report(df) ==
  [total_rows |-> NRows(df),
   total_columns |-> Len(df.cols),
   countries |-> Cardinality({df.rows[i].iso3 : i \in 1..NRows(df)} \ {NaN}),
   duplicate_check |-> DuplicateCheck(df),
   year_check |-> YearCheck({df.rows[i].year : i \in 1..NRows(df)})]

-----------------------------------------------------------------------------
(* The script as a state machine: one action per section, in program order *)

dataset_names ==
  << "ndgain_final", "ntl_final", "emdat_final", "gdacs_final", "weo_final", "wdi_final",
     "hdr_final", "wgi_final", "inform_final", "fts_final", "desinventar_final",
     "barrolee_final", "gini_final" >>

\* the sources merged onto the spine, in order
merge_datasets == Tail(dataset_names)

NoFiles == [x \in {} |-> <<>>]

\* a section that has not run yet has read nothing
NotRead == [present |-> FALSE, read |-> FALSE]

NoCall == [fn |-> "none"]

Init ==
  /\ pc = "ndgain"
  /\ deviations = 0
  /\ datasets = [n \in Range(dataset_names) |-> EmptyFrame(<<>>)]
  /\ final = EmptyFrame(<<>>)
  /\ merge_index = 1
  /\ pycountry \in BOOLEAN
  /\ files = NoFiles
  /\ raw = [n \in Range(dataset_names) |-> NotRead]
  /\ call = NoCall
  /\ run = 1

\* the raw files of a source: the nominal ones, or one of the other variants
\* as long as the budget of deviating sources allows
Choose(name, f, nominal) ==
  IF raw[name] = NotRead
  THEN /\ f = nominal \/ deviations < MaxDeviations
       /\ deviations' = IF f = nominal THEN deviations ELSE deviations + 1
  ELSE /\ f = raw[name]
       /\ deviations' = deviations

\* a normalizer section: the table of the source is bound, the script moves on
Normalize(at, name, f, table, next) ==
  /\ pc = at
  /\ raw' = [raw EXCEPT ![name] = f]
  /\ datasets' = [datasets EXCEPT ![name] = table]
  /\ pc' = next
  /\ UNCHANGED <<final, merge_index, pycountry, files, call, run>>

LoadNDGain ==
  \E f \in NDGainInputs :
    Choose("ndgain_final", f, NDGainNominal)
      /\ Normalize("ndgain", "ndgain_final", f, ProcessNDGain(f), "ntl")

LoadNTL ==
  \E f \in NTLInputs :
    Choose("ntl_final", f, NTLNominal)
      /\ Normalize("ntl", "ntl_final", f, ProcessNTL(f), "emdat")

LoadEmdat ==
  \E f \in EmdatInputs :
    Choose("emdat_final", f, EmdatNominal)
      /\ Normalize("emdat", "emdat_final", f, ProcessEmdat(f), "gdacs")

LoadGdacs ==
  \E f \in GdacsInputs :
    Choose("gdacs_final", f, GdacsNominal)
      /\ Normalize("gdacs", "gdacs_final", f, ProcessGdacs(f), "weo")

LoadWeo ==
  \E f \in WeoInputs :
    Choose("weo_final", f, WeoNominal)
      /\ Normalize("weo", "weo_final", f, ProcessWeo(f), "wdi")

LoadWdi ==
  \E f \in WdiInputs :
    Choose("wdi_final", f, WdiNominal)
      /\ Normalize("wdi", "wdi_final", f, ProcessWdi(f), "hdr")

LoadHdr ==
  \E f \in HdrInputs :
    Choose("hdr_final", f, HdrNominal)
      /\ Normalize("hdr", "hdr_final", f, ProcessHdr(f), "wgi")

LoadWgi ==
  \E f \in WgiInputs :
    Choose("wgi_final", f, WgiNominal)
      /\ Normalize("wgi", "wgi_final", f, ProcessWgi(f), "inform")

LoadInform ==
  \E f \in InformInputs :
    Choose("inform_final", f, InformNominal)
      /\ Normalize("inform", "inform_final", f, ProcessInform(f), "fts")

LoadFts ==
  \E f \in FtsInputs :
    Choose("fts_final", f, FtsNominal)
      /\ Normalize("fts", "fts_final", f, ProcessFts(f), "desinventar")

LoadDesinventar ==
  \E f \in DesInputs :
    Choose("desinventar_final", f, DesNominal)
      /\ Normalize("desinventar", "desinventar_final", f, ProcessDesinventar(f), "barrolee")

LoadBarroLee ==
  \E f \in BarroLeeInputs :
    Choose("barrolee_final", f, BarroLeeNominal)
      /\ Normalize("barrolee", "barrolee_final", f, ProcessBarroLee(f), "gini")

LoadGini ==
  \E f \in GiniInputs :
    Choose("gini_final", f, GiniNominal)
      /\ Normalize("gini", "gini_final", f, ProcessGini(f), "spine")

-----------------------------------------------------------------------------
(* Merging all datasets *)

\* final = ndgain_final.copy()
StartMerge ==
  /\ pc = "spine"
  /\ final' = datasets["ndgain_final"]
  /\ merge_index' = 1
  /\ pc' = "merge"
  /\ UNCHANGED <<deviations, datasets, pycountry, files, raw, call, run>>

\* a source is merged when it has rows, both key columns and a data column
Mergeable(df) ==
  NRows(df) > 0 /\ HasCol(df, "iso3") /\ HasCol(df, "year") /\ DataCols(df) # <<>>

\* variant: a source that is not mergeable is joined all the same, keeping
\* only the rows it matches
MergeUnguarded(left, df) ==
  IF Mergeable(df) THEN MergeLeft(left, df)
  ELSE [cols |-> left.cols, rows |-> InnerJoinRows(left.rows, df, <<>>)]

\* the body of the merge loop
MergeOne(left, df) == IF Mergeable(df) THEN MergeLeft(left, df) ELSE left

MergeStep ==
  /\ pc = "merge"
  /\ final' = MergeOne(final, datasets[merge_datasets[merge_index]])
  /\ merge_index' = merge_index + 1
  /\ pc' = IF merge_index = Len(merge_datasets) THEN "filter" ELSE "merge"
  /\ UNCHANGED <<deviations, datasets, pycountry, files, raw, call, run>>

\* a step of the post-processing: final is rebound, the script moves on
Transform(at, table, next) ==
  /\ pc = at
  /\ final' = table
  /\ pc' = next
  /\ UNCHANGED <<deviations, datasets, merge_index, pycountry, files, raw, call, run>>

\* year range filter, rows without a code removed, sorted by (iso3, year)
PostMergeFilter == Transform("filter", SortByKey(DropNaIso3(FilterYears(final))), "disaster")

ConsolidateDisasterStep == Transform("disaster", ConsolidateDisaster(final), "economic")

ConsolidateEconomicStep == Transform("economic", ConsolidateEconomic(final), "education")

ConsolidateEducationStep == Transform("education", ConsolidateEducation(final), "dii")

CalcDIIStep == Transform("dii", CalcDII(final), "rrs")

CalcRRSStep == Transform("rrs", CalcRRS(final), "cri")

CalcCRIStep == Transform("cri", CalcCRI(final), "metadata")

AddMetadataStep == Transform("metadata", AddMetadata(final, pycountry), "coverage")

SaveCoverage ==
  /\ pc = "coverage"
  /\ files' = (COVERAGE_FILE :> coverage_df(final)) @@ files
  /\ pc' = "save"
  /\ UNCHANGED <<deviations, datasets, final, merge_index, pycountry, raw, call, run>>

\* the columns are reordered and the table is written, over an earlier file
SaveUnified ==
  /\ pc = "save"
  /\ final' = Project(final, final_col_order(final))
  /\ files' = (OUTPUT_FILE :> final') @@ files
  /\ pc' = "report"
  /\ UNCHANGED <<deviations, datasets, merge_index, pycountry, raw, call, run>>

\* building the report text raises KeyError when an index column is absent,
\* and the script ends before the report file is opened
WriteReport ==
  /\ pc = "report"
  /\ IF ReportRaises(final)
     THEN pc' = "crashed" /\ files' = files
     ELSE pc' = "done" /\ files' = (VALIDATION_FILE :> validation_report(final)) @@ files
  /\ UNCHANGED <<deviations, datasets, final, merge_index, pycountry, raw, call, run>>

\* run_diagnostics.py, started once the pipeline has ended and left a table:
\* it needs pycountry, reads the table back and writes its coverage matrix and
\* its report over the files of the pipeline
Diagnose ==
  /\ pc \in {"done", "crashed"}
  /\ pycountry
  /\ OUTPUT_FILE \in DOMAIN files
  /\ LET df == ReadUnified(files[OUTPUT_FILE])
     IN /\ (VALIDATION_FILE \in DOMAIN files => files[VALIDATION_FILE] # diagnostics_report(df))
        /\ files' = (COVERAGE_FILE :> diagnostics_coverage(df))
                      @@ (VALIDATION_FILE :> diagnostics_report(df)) @@ files
  /\ UNCHANGED <<pc, deviations, datasets, final, merge_index, pycountry, raw, call, run>>

\* the script is started again over the same input directory, in the same
\* environment; the output files of the earlier run are still there
Rerun ==
  /\ pc \in {"done", "crashed"}
  /\ run < MaxRuns
  /\ run' = run + 1
  /\ pc' = "ndgain"
  /\ datasets' = [n \in Range(dataset_names) |-> EmptyFrame(<<>>)]
  /\ final' = EmptyFrame(<<>>)
  /\ merge_index' = 1
  /\ UNCHANGED <<deviations, pycountry, files, raw, call>>

Next ==
  \/ LoadNDGain \/ LoadNTL \/ LoadEmdat \/ LoadGdacs \/ LoadWeo \/ LoadWdi \/ LoadHdr
  \/ LoadWgi \/ LoadInform \/ LoadFts \/ LoadDesinventar \/ LoadBarroLee \/ LoadGini
  \/ StartMerge \/ MergeStep \/ PostMergeFilter
  \/ ConsolidateDisasterStep \/ ConsolidateEconomicStep \/ ConsolidateEducationStep
  \/ CalcDIIStep \/ CalcRRSStep \/ CalcCRIStep \/ AddMetadataStep
  \/ SaveCoverage \/ SaveUnified \/ WriteReport \/ Diagnose \/ Rerun

Spec == Init /\ [][Next]_vars

-----------------------------------------------------------------------------
(* Properties *)

\* the sections after the post-merge filter
PostFilterStages ==
  { "disaster", "economic", "education", "dii", "rrs", "cri", "metadata", "coverage",
    "save", "report", "done", "crashed" }

\* the sections from the start of the merge loop on
MergeStages == {"merge", "filter"} \cup PostFilterStages

Keys(t) == {KeyOf(t.rows[i]) : i \in 1..NRows(t)}

\* a cell read as the post-processing reads it: an absent column is a missing value
Cell(r, c) == IF c \in DOMAIN r THEN r[c] ELSE NULL

\* C1: after the merges and the post-merge filter no two rows of the final
\* table share the same (iso3, year) key.
C1_UniqueKeys ==
  pc \in PostFilterStages =>
    \A i, j \in 1..NRows(final) : i # j => ~KeyEq(final.rows[i], final.rows[j])

\* C2: every spine key with a code and a year in [2000, 2024] is in the final
\* table from the start of the merge loop on, whatever the other sources hold:
\* no left merge removes a spine row, and the filter removes only rows without
\* a code or out of range.
C2_SpineKeysKept ==
  pc \in MergeStages =>
    \A k \in Keys(datasets["ndgain_final"]) :
      (k.iso3 # NaN /\ k.year >= 2000 /\ k.year <= 2024) => k \in Keys(final)

\* a run that ended with a failed source and a spine key no disaster source has
C2_Witness ==
  /\ pc = "done"
  /\ NRows(datasets["wgi_final"]) = 0
  /\ \E i \in 1..NRows(final) :
       /\ KeyOf(final.rows[i]) \in Keys(datasets["ndgain_final"])
       /\ KeyOf(final.rows[i]) \notin Keys(datasets["emdat_final"])

\* C3: from the post-merge filter on, every row of the final table has a year
\* in [2000, 2024] and a code.
C3_RowsInRange ==
  pc \in PostFilterStages =>
    \A i \in 1..NRows(final) :
      /\ final.rows[i].year >= 2000 /\ final.rows[i].year <= 2024
      /\ final.rows[i].iso3 # NaN

\* a finished run whose spine had a row without a code, which the filter removed
C3_Witness ==
  /\ pc = "done"
  /\ NRows(final) > 0
  /\ \E i \in 1..NRows(datasets["ndgain_final"]) : datasets["ndgain_final"].rows[i].iso3 = NaN

UpperLetters ==
  { "A", "B", "C", "D", "E", "F", "G", "H", "I", "J", "K", "L", "M", "N", "O", "P", "Q",
    "R", "S", "T", "U", "V", "W", "X", "Y", "Z" }

\* C4: every code in the final table is exactly 3 uppercase letters (the
\* script enumerates no non-standard code).
C4_ThreeUpperLetters ==
  pc \in PostFilterStages =>
    \A i \in 1..NRows(final) :
      /\ Len(final.rows[i].iso3) = 3
      /\ \A n \in 1..3 : final.rows[i].iso3[n] \in UpperLetters

\* C5: whatever sources are unavailable, the run ends without an uncaught
\* exception and with the three output files written.
C5_EndsWithThreeFiles ==
  pc \in {"done", "crashed"} =>
    /\ pc = "done"
    /\ DOMAIN files = {OUTPUT_FILE, COVERAGE_FILE, VALIDATION_FILE}

\* C6: a row whose population is missing has a missing DII.
C6_NullPopulationNullDII ==
  HasCol(final, "DII") =>
    \A i \in 1..NRows(final) : IsNull(final.rows[i]["population"]) => IsNull(final.rows[i]["DII"])

\* C7: RRS is missing on a row whose GDP-growth change, HDI and governance
\* score are all missing, and CRI is missing on a row whose readiness, coping
\* capacity, hazard and both vulnerability scores are all missing.
C7_AllNullInputsNullIndex ==
  /\ HasCol(final, "RRS") =>
       \A i \in 1..NRows(final) :
         (\A c \in {"gdp_growth_change", "hdi", "wgi_composite", "wgi_gov_effectiveness"} :
            IsNull(Cell(final.rows[i], c)))
           => IsNull(final.rows[i]["RRS"])
  /\ HasCol(final, "CRI") =>
       \A i \in 1..NRows(final) :
         (\A c \in {"ndgain_readiness", "inform_coping_capacity", "inform_hazard",
                    "ndgain_vulnerability", "inform_vulnerability"} :
            IsNull(Cell(final.rows[i], c)))
           => IsNull(final.rows[i]["CRI"])

\* the closed form of C8 on one row, from the consolidated columns
C8_ClosedForm(r) ==
  LET deaths == FillNa(Cell(r, "total_disaster_deaths"), Num(0))
      affected == FillNa(Cell(r, "total_disaster_affected"), Num(0))
      severity == FillNa(Cell(r, "gdacs_severity_weight"), Num(1))
      per_million == RDiv(RMul(Num(1000000), deaths), r["population"])
      pct == RDiv(RMul(Num(100), affected), r["population"])
  IN RMul(RDiv(RAdd(per_million, RMul(Num(4), pct)), r["gdp_per_capita_best"]), severity)

C8_Example(r) ==
  /\ Cell(r, "total_disaster_deaths") = Num(10)
  /\ Cell(r, "population") = Num(1000000)
  /\ Cell(r, "total_disaster_affected") = Num(50000)
  /\ Cell(r, "gdp_per_capita_best") = Num(5000)
  /\ Cell(r, "gdacs_severity_weight") = Num(2)

\* C8: on a row with a positive population and a non-zero GDP per capita,
\* DII = ((1e6 * deaths / population + 4 * (100 * affected / population))
\* / gdp_per_capita) * severity, with severity 1 when absent; deaths 10,
\* population 1,000,000, affected 50,000, GDP per capita 5000 and severity 2
\* give 0.012.
C8_DIIFormula ==
  HasCol(final, "DII") =>
    \A i \in 1..NRows(final) :
      LET r == final.rows[i]
      IN /\ (NotNull(r["population"]) /\ RLess(Num(0), r["population"])
               /\ NotNull(Cell(r, "gdp_per_capita_best"))
               /\ ~IsZero(Cell(r, "gdp_per_capita_best")))
              => r["DII"] = C8_ClosedForm(r)
         /\ C8_Example(r) => r["DII"] = Rat(12, 1000)

\* a finished run with the row of the example
C8_Witness ==
  /\ pc = "done"
  /\ \E i \in 1..NRows(final) : C8_Example(final.rows[i]) /\ final.rows[i]["DII"] = Rat(12, 1000)

\* the substitutive groups: primary column, secondary column, best column
best_groups ==
  { <<"gdp_per_capita", "gdp_per_capita_imf", "gdp_per_capita_best">>,
    <<"gdp_growth", "gdp_growth_imf", "gdp_growth_best">>,
    <<"gini_index", "gini_wid", "gini_best">>,
    <<"mean_years_schooling", "years_of_schooling", "education_years_best">> }

\* C9: in each substitutive group and on every row the best value is the
\* primary value when that is present, whatever the secondary holds, else the
\* secondary value, and missing when both are missing.
C9_CoalescePriority ==
  pc \in (PostFilterStages \ {"disaster", "economic", "education"}) =>
    \A g \in best_groups : \A i \in 1..NRows(final) :
      LET primary == Cell(final.rows[i], g[1])
          secondary == Cell(final.rows[i], g[2])
          best == Cell(final.rows[i], g[3])
      IN /\ NotNull(primary) => best = primary
         /\ (IsNull(primary) /\ NotNull(secondary)) => best = secondary
         /\ (IsNull(primary) /\ IsNull(secondary)) => IsNull(best)

\* a finished run with, in one group, a row where both sources differ, a row
\* with the secondary only and a row with neither
C9_Witness ==
  /\ pc = "done"
  /\ \E i, j, k \in 1..NRows(final) :
       /\ NotNull(Cell(final.rows[i], "gdp_per_capita"))
       /\ NotNull(Cell(final.rows[i], "gdp_per_capita_imf"))
       /\ Cell(final.rows[i], "gdp_per_capita") # Cell(final.rows[i], "gdp_per_capita_imf")
       /\ IsNull(Cell(final.rows[j], "gdp_per_capita"))
       /\ NotNull(Cell(final.rows[j], "gdp_per_capita_imf"))
       /\ IsNull(Cell(final.rows[k], "gini_index"))
       /\ IsNull(Cell(final.rows[k], "gini_wid"))

UniqueKeys(t) == \A i, j \in 1..NRows(t) : i # j => ~KeyEq(t.rows[i], t.rows[j])

\* row i of the merged table is row i of the left table plus the cells of its
\* match in df, or missing cells when df has no row of that key
MergedRowOk(old, new, df) ==
  LET m == Members(df.rows, old)
  IN /\ \A c \in DOMAIN old : new[c] = old[c]
     /\ \A c \in Range(DataCols(df)) :
          new[c] = IF m = <<>> THEN NULL ELSE m[1][c]

\* C10: merging a source with unique keys yields exactly one row per row of
\* the table merged onto; a row whose key is in the source carries the values of
\* that source row, and any other row has a missing value in every column of
\* the source.
C10_MergeUniqueSource ==
  [][(pc = "merge" /\ Mergeable(datasets[merge_datasets[merge_index]])
        /\ UniqueKeys(datasets[merge_datasets[merge_index]]))
       => /\ NRows(final') = NRows(final)
          /\ \A i \in 1..NRows(final) :
               MergedRowOk(final.rows[i], final'.rows[i], datasets[merge_datasets[merge_index]])]_vars

\* the merge loop has just merged a unique-key source that matches one row of
\* the table and not another
C10_Witness ==
  /\ pc = "merge"
  /\ merge_index > 1
  /\ LET df == datasets[merge_datasets[merge_index - 1]]
     IN /\ Mergeable(df)
        /\ UniqueKeys(df)
        /\ \E i, j \in 1..NRows(final) :
             /\ KeyOf(final.rows[i]) \in Keys(df)
             /\ KeyOf(final.rows[j]) \notin Keys(df)
             /\ \A c \in Range(DataCols(df)) : IsNull(final.rows[j][c])

-----------------------------------------------------------------------------
(* Event-record aggregation *)

\* the sum of one field over event records, a missing value counted as zero
SumMissingAsZero(recs, c) == SumSeq([i \in 1..Len(recs) |-> FillNa(recs[i][c], Num(0))])

RowsWithKey(t, code, year) ==
  SelectSeq(t.rows, LAMBDA r : r.iso3 = code /\ r.year = year)

\* the EM-DAT event records of the file read, with a year in range
EmdatRecords ==
  IF "listing" \in DOMAIN raw["emdat_final"] /\ raw["emdat_final"].listing # <<>>
  THEN SelectSeq(FirstFile(raw["emdat_final"].listing).events,
                 LAMBDA r : InYearRange(r.year))
  ELSE <<>>

\* the DesInventar records read that parse, with a year in range, under the
\* country code of their folder
DesRecords ==
  IF "folders" \in DOMAIN raw["desinventar_final"] /\ raw["desinventar_final"].present
  THEN DesAllRows(raw["desinventar_final"].folders)
  ELSE <<>>

EmdatGroupOk(code, year) ==
  LET recs == SelectSeq(EmdatRecords,
                LAMBDA r : StandardizeCode(r.iso3) = code /\ r.year = year)
      rows == RowsWithKey(datasets["emdat_final"], code, year)
  IN /\ rows # <<>>
     /\ \A i \in 1..Len(rows) :
          /\ rows[i]["emdat_event_count"] = Num(Len(recs))
          /\ \A c \in Range(emdat_numeric_cols) : rows[i][c] = SumMissingAsZero(recs, c)

DesGroupOk(code, year) ==
  LET recs == SelectSeq(DesRecords,
                LAMBDA r : StandardizeCode(r.iso3) = code /\ r.year = year)
      rows == RowsWithKey(datasets["desinventar_final"], code, year)
  IN /\ rows # <<>>
     /\ \A i \in 1..Len(rows) :
          /\ rows[i]["desinventar_events"] = Num(Len(recs))
          /\ rows[i]["desinventar_deaths"] = SumMissingAsZero(recs, "deaths")
          /\ rows[i]["desinventar_affected"] = SumMissingAsZero(recs, "affected")

\* C11: for every (country code, year) with at least one event record in
\* range, the aggregated table has the number of records as its event count
\* and the sum of the records' values, a missing value counted as zero, in
\* each numeric field.
C11_EventAggregation ==
  /\ HasCol(datasets["emdat_final"], "iso3") =>
     \A i \in 1..Len(EmdatRecords) :
       StandardizeCode(EmdatRecords[i].iso3) # NaN
         => EmdatGroupOk(StandardizeCode(EmdatRecords[i].iso3), EmdatRecords[i].year)
  /\ HasCol(datasets["desinventar_final"], "iso3") =>
     \A i \in 1..Len(DesRecords) :
       StandardizeCode(DesRecords[i].iso3) # NaN
         => DesGroupOk(StandardizeCode(DesRecords[i].iso3), DesRecords[i].year)

\* the example of C11: deaths 5, missing, 10 in three records of one key
C11_Example ==
  /\ deviations = 0
  /\ \E i \in 1..NRows(datasets["emdat_final"]) :
       LET r == datasets["emdat_final"].rows[i]
       IN r["emdat_deaths"] = Num(15) /\ r["emdat_event_count"] = Num(3)

-----------------------------------------------------------------------------
(* The helper functions called on their own, on inputs from bounded sets *)

MaxMeltRows == 3

\* headers a wide file may carry: a name column, years in and out of the range
MeltHeaders == <<HName, H1999, IntToStr(YEAR_START), H2010, IntToStr(YEAR_END),
                 IntToStr(YEAR_END + 1), S4("2", "0", "1", "x")>>

MeltCodes == <<USA, FRA, usa, S2("F", "R")>>

\* the wide table with the chosen headers and the first n entities; the cell
\* of entity i under header j holds 10 * i + j
MeltWide(chosen, n) ==
  LET hs == SelectSeq(MeltHeaders, LAMBDA h : h \in chosen)
  IN [columns |-> <<S4("I", "S", "O", "3")>> \o hs,
      rows |-> [i \in 1..n |->
                  [ISO3 |-> MeltCodes[i],
                   cells |-> [h \in Range(MeltHeaders) |->
                                Num(10 * i + (CHOOSE j \in 1..Len(MeltHeaders) :
                                                 MeltHeaders[j] = h))]]]]

HelperInit ==
  /\ pc = "helpers"
  /\ deviations = 0
  /\ datasets = [n \in Range(dataset_names) |-> EmptyFrame(<<>>)]
  /\ final = EmptyFrame(<<>>)
  /\ merge_index = 1
  /\ pycountry \in BOOLEAN
  /\ files = NoFiles
  /\ raw = [n \in Range(dataset_names) |-> NotRead]
  /\ call = NoCall
  /\ run = 1

\* Each behaviour applies one helper to one input: the helpers keep no state
\* between calls, so a call made after another returns what it returns alone.
\* the year columns that exist are selected and the table is melted
CallMelt ==
  \E chosen \in SUBSET Range(MeltHeaders), n \in 0..MaxMeltRows :
    LET df == MeltWide(chosen, n)
        gain_years == ExistingYearCols(df.columns)
    IN /\ pc = "helpers" /\ call = NoCall
       /\ call' = [fn |-> "melt_wide_to_long", df |-> df, year_cols |-> gain_years,
                   result |-> melt_wide_to_long(df, gain_years, "value")]
       /\ UNCHANGED <<pc, deviations, datasets, final, merge_index, pycountry, files, raw, run>>

-----------------------------------------------------------------------------
(* country_name_to_iso3 *)

UNITED_STATES == <<"U", "N", "I", "T", "E", "D", " ", "S", "T", "A", "T", "E", "S">>
COTE_DIVOIRE == <<"C", "O^", "T", "E", " ", "D", "'", "I", "V", "O", "I", "R", "E">>
UK == S2("U", "K")
CIV == S3("C", "I", "V")
GBR == S3("G", "B", "R")
NAM == S3("N", "A", "M")
France == <<"F", "r", "a", "n", "c", "e">>

HONG_KONG == <<"H", "O", "N", "G", " ", "K", "O", "N", "G">>
MACAU == <<"M", "A", "C", "A", "U">>
TAIWAN == <<"T", "A", "I", "W", "A", "N">>
PALESTINE == <<"P", "A", "L", "E", "S", "T", "I", "N", "E">>
HKG == S3("H", "K", "G")
MAC == S3("M", "A", "C")
TWN == S3("T", "W", "N")
PSE == S3("P", "S", "E")
SRB == S3("S", "R", "B")

\* manual_mappings: the entries the names below use
manual_mappings ==
  (UNITED_STATES :> USA) @@ (COTE_DIVOIRE :> CIV) @@ (UK :> GBR)
    @@ (HONG_KONG :> HKG) @@ (MACAU :> MAC) @@ (TAIWAN :> TWN) @@ (PALESTINE :> PSE)

\* pycountry.countries.get(name=...): the record whose name is the text given,
\* None (NaN here) without one
registry_names == (France :> FRA)

CountriesGet(country_name) ==
  IF country_name \in DOMAIN registry_names THEN registry_names[country_name] ELSE NaN

\* what pycountry.countries.search_fuzzy may do with a text that has no exact
\* name: raise LookupError (NaN here) or return candidates, the first of which
\* is kept
FuzzyOutcomes == {NaN, FRA, NAM, SRB}

\* the function as a record of the steps it reaches and the value it returns;
\* importable: import pycountry succeeds; fuzzy: the outcome of search_fuzzy
country_name_to_iso3(country_name, importable, fuzzy) ==
  IF ~importable THEN [steps |-> <<"import">>, result |-> NaN]
  ELSE IF country_name = NaN \/ country_name = <<>>
  THEN [steps |-> <<"import", "isna">>, result |-> NaN]
  ELSE LET name_upper == StrUpper(StrStrip(country_name))
       IN IF name_upper \in DOMAIN manual_mappings
          THEN [steps |-> <<"import", "isna", "alias">>, result |-> manual_mappings[name_upper]]
          ELSE IF CountriesGet(country_name) # NaN
          THEN [steps |-> <<"import", "isna", "alias", "exact">>,
                result |-> CountriesGet(country_name)]
          ELSE [steps |-> <<"import", "isna", "alias", "exact", "fuzzy">>, result |-> fuzzy]

\* names handed to the resolver: aliases as written in files, registry names,
\* misspellings, placeholders
ResolverNames ==
  { UNITED_STATES,
    <<" ", "u", "n", "i", "t", "e", "d", " ", "s", "t", "a", "t", "e", "s", " ">>,
    COTE_DIVOIRE,
    <<"C", "o^", "t", "e", " ", "d", "'", "I", "v", "o", "i", "r", "e">>,
    UK, S2("u", "k"),
    <<"H", "o", "n", "g", " ", "K", "o", "n", "g">>, <<"M", "a", "c", "a", "u">>,
    <<"T", "a", "i", "w", "a", "n">>, <<"P", "a", "l", "e", "s", "t", "i", "n", "e">>,
    <<"K", "o", "s", "o", "v", "o">>,
    France, <<"F", "r", "n", "c", "e">>, <<"f", "r", "a", "n", "c", "e">>,
    NaN, <<>>, S3(" ", " ", " "), S1(" "),
    S3("N", "A", "N"), S3("n", "a", "n"), S4("N", "O", "N", "E"), S2("-", "1"),
    S2("N", "A"), S2("n", "a"), S4("N", "U", "L", "L"), S3(".", ".", "."),
    S3("N", "/", "A"), S3("n", "/", "a") }

CallResolver ==
  \E name \in ResolverNames, fuzzy \in FuzzyOutcomes :
    LET r == country_name_to_iso3(name, pycountry, fuzzy)
    IN /\ pc = "helpers" /\ call = NoCall
       /\ call' = [fn |-> "country_name_to_iso3", country_name |-> name,
                   steps |-> r.steps, result |-> r.result]
       /\ UNCHANGED <<pc, deviations, datasets, final, merge_index, pycountry, files, raw, run>>

-----------------------------------------------------------------------------
(* normalize_0_1 scaled to 0..100, applied twice *)

MaxSeriesLen == 3

SeriesValues == {NULL, Num(0 - 2), Num(0), Num(1), Rat(5, 2), Num(7), Num(100)}

SeriesInputs == UNION {[1..n -> SeriesValues] : n \in 0..MaxSeriesLen}

\* normalize_0_1(series) * 100
Normalize100(series) == Times(normalize_0_1(series), Num(100))

CallNormalize ==
  \E series \in SeriesInputs :
    /\ pc = "helpers" /\ call = NoCall
    /\ call' = [fn |-> "normalize_0_1", series |-> series,
                first |-> Normalize100(series),
                second |-> Normalize100(Normalize100(series))]
    /\ UNCHANGED <<pc, deviations, datasets, final, merge_index, pycountry, files, raw, run>>

-----------------------------------------------------------------------------
(* standardize_iso3 on its own, applied twice *)

MaxCodeRows == 2

\* cells of a code column: codes in any letter case and with surrounding
\* whitespace, a code that is not three letters, placeholders, a missing cell
CodeInputs ==
  { USA, usa, <<" ", "u", "s", "a">>, <<"f", "r", "a", "\t">>,
    <<"\n", " ", "F", "r", "a", " ", " ">>, S2("f", "r"), <<"U", " ", "K">>,
    NaN, <<>>, S1(" "), S2("\t", "\n"),
    S3("n", "a", "n"), S4("N", "o", "n", "e"),
    S2("-", "1"), S2("N", "A"), <<" ", "n", "a", " ">>,
    <<"N", "U", "L", "L", "\t">>, S3(".", ".", "."), S3("N", "/", "A") }

CodeFrames ==
  { [cols |-> <<"iso3">>, rows |-> [i \in 1..Len(cells) |-> [iso3 |-> cells[i]]]] :
      cells \in UNION {[1..n -> CodeInputs] : n \in 1..MaxCodeRows} }

CallStandardize ==
  \E df \in CodeFrames :
    /\ pc = "helpers" /\ call = NoCall
    /\ call' = [fn |-> "standardize_iso3", df |-> df,
                first |-> standardize_iso3(df),
                second |-> standardize_iso3(standardize_iso3(df))]
    /\ UNCHANGED <<pc, deviations, datasets, final, merge_index, pycountry, files, raw, run>>

-----------------------------------------------------------------------------
(* The split of one funding record among its recipients *)

MaxLocations == 3

\* the texts between the commas of a destLocations cell: codes, a code inside
\* a space, a two-letter code, a name, nothing
LocationTokens ==
  { USA, FRA, usa, S4(" ", "F", "R", "A"), S2("E", "U"),
    <<"K", "o", "s", "o", "v", "o">>, <<>> }

FlowInputs ==
  { FtsFlow(locs, 2010, amount) :
      locs \in UNION {[1..n -> LocationTokens] : n \in 1..MaxLocations},
      amount \in {Num(100), Num(30)} }

\* the body of the loop over the records of a file
CallFtsExpand ==
  \E flow \in FlowInputs :
    /\ pc = "helpers" /\ call = NoCall
    /\ call' = [fn |-> "fts_expand", flow |-> flow, expanded_rows |-> FtsExpand(flow)]
    /\ UNCHANGED <<pc, deviations, datasets, final, merge_index, pycountry, files, raw, run>>

-----------------------------------------------------------------------------
(* The year coverage check of the report on its own *)

\* years that may be absent from a table which has every other year of
\* 2000..2024, and years outside that range that may be present
YearsAtStake == {2000, 2012, 2023, 2024}

YearsOutside == {1999, 2025}

YearSets ==
  { ((2000..2024) \ absent) \cup extra :
      absent \in SUBSET YearsAtStake, extra \in SUBSET YearsOutside }

CallYearCheck ==
  \E actual_years \in YearSets :
    /\ pc = "helpers" /\ call = NoCall
    /\ call' = [fn |-> "year_check", actual_years |-> actual_years,
                result |-> YearCheck(actual_years)]
    /\ UNCHANGED <<pc, deviations, datasets, final, merge_index, pycountry, files, raw, run>>

HelperNext ==
  \/ CallMelt \/ CallResolver \/ CallNormalize \/ CallStandardize \/ CallFtsExpand
  \/ CallYearCheck

HelperSpec == HelperInit /\ [][HelperNext]_vars

\* a header that is a 4-digit year of the range
IsRangeYearHeader(h) ==
  Len(h) = 4 /\ (\A i \in 1..4 : IsDigit(h[i])) /\ InYearRange(DigitsToInt(h, 0))

\* C12: melting a wide table of R entity rows with Y year columns of the
\* range gives exactly R * Y long rows, one per entity and year, with the year
\* an integer and the value the entity's cell under that year; the other
\* columns give no row.
C12_MeltShape ==
  call.fn = "melt_wide_to_long" =>
    LET df == call.df
        long == call.result.rows
        headers == SelectSeq(df.columns, IsRangeYearHeader)
    IN /\ Len(long) = Len(df.rows) * Len(headers)
       /\ \A k \in 1..Len(long) : InYearRange(long[k].year)
       /\ \A i \in 1..Len(df.rows) : \A j \in 1..Len(headers) :
            LET hits == SelectSeq(long, LAMBDA r : r.iso3 = df.rows[i].ISO3
                                                   /\ r.year = DigitsToInt(headers[j], 0))
            IN Len(hits) = 1 /\ hits[1]["value"] = df.rows[i].cells[headers[j]]

\* the 3-by-2 example of C12: six long rows
C12_Witness ==
  /\ call.fn = "melt_wide_to_long"
  /\ Len(call.df.rows) = 3
  /\ Len(call.year_cols) = 2
  /\ Len(call.df.columns) > 3
  /\ Len(call.result.rows) = 6

\* C13: a name whose trimmed, upper-cased form is a key of the alias table
\* resolves to the alias code, without the exact-match or the fuzzy step
\* being reached, whether or not the registry package is there.
C13_AliasFirst ==
  (call.fn = "country_name_to_iso3" /\ call.country_name # NaN
     /\ StrUpper(StrStrip(call.country_name)) \in DOMAIN manual_mappings)
    => /\ call.result = manual_mappings[StrUpper(StrStrip(call.country_name))]
       /\ "exact" \notin Range(call.steps)
       /\ "fuzzy" \notin Range(call.steps)

\* the placeholders: the sentinel set, whitespace only, and N/A
SentinelNames ==
  { NaN, <<>>, S1(" "), S3(" ", " ", " "), S3("N", "A", "N"), S4("N", "O", "N", "E"),
    S2("-", "1"), S2("N", "A"), S4("N", "U", "L", "L"), S3(".", ".", "."), S3("N", "/", "A") }

\* C14: a placeholder resolves to null and is turned away before the alias,
\* exact-match and fuzzy steps.
C14_SentinelsNull ==
  (call.fn = "country_name_to_iso3"
     /\ (call.country_name = NaN \/ StrUpper(StrStrip(call.country_name)) \in SentinelNames))
    => /\ call.result = NaN
       /\ Range(call.steps) \cap {"alias", "exact", "fuzzy"} = {}

FullyPopulated(series) == \A i \in 1..Len(series) : NotNull(series[i])

IsFlat(series) == \A i, j \in 1..Len(series) : series[i] = series[j]

\* C15: on a column without a missing value, normalizing to 0..100 a second
\* time reproduces the first result exactly, and a column of equal values is
\* 50 everywhere after the first and after the second application.
C15_NormalizeIdempotent ==
  (call.fn = "normalize_0_1" /\ FullyPopulated(call.series))
    => /\ call.second = call.first
       /\ IsFlat(call.series) =>
            \A i \in 1..Len(call.series) : call.first[i] = Num(50) /\ call.second[i] = Num(50)

\* a column of three different values, one of them strictly between the ends
C15_Witness ==
  /\ call.fn = "normalize_0_1"
  /\ FullyPopulated(call.series)
  /\ Len(call.series) = 3
  /\ ~IsFlat(call.series)
  /\ \E i \in 1..3 : call.first[i] \notin {Num(0), Num(100)}
  /\ call.second = call.first

CurrentSource == datasets[merge_datasets[merge_index]]

\* C17: in the merge loop a source without rows, or without a column besides
\* the key, leaves the rows and columns of the table as they were, and the
\* loop goes on with the next source.
C17_EmptySourceSkipped ==
  [][(pc = "merge" /\ (NRows(CurrentSource) = 0 \/ DataCols(CurrentSource) = <<>>))
       => /\ final' = final
          /\ merge_index' = merge_index + 1
          /\ pc' = IF merge_index < Len(merge_datasets) THEN "merge" ELSE "filter"]_vars

\* the loop has just passed a source without rows and a table with rows, and
\* is about to merge the next source
C17_Witness ==
  /\ pc = "merge"
  /\ merge_index \in 2..Len(merge_datasets)
  /\ NRows(datasets[merge_datasets[merge_index - 1]]) = 0
  /\ NRows(final) > 0
  /\ Mergeable(CurrentSource)

\* the GDP per capita the DII divides by: the consolidated column, else the
\* World Bank one
ConsolidatedGdp(r) ==
  IF "gdp_per_capita_best" \in DOMAIN r THEN r["gdp_per_capita_best"]
  ELSE Cell(r, "gdp_per_capita")

\* the DII column clipped at 0 holds two different values
DIINotFlat ==
  \E i, j \in 1..NRows(final) :
    /\ NotNull(final.rows[i]["DII"]) /\ NotNull(final.rows[j]["DII"])
    /\ Clip(final.rows[i]["DII"], Num(0), NULL) # Clip(final.rows[j]["DII"], Num(0), NULL)

\* C18: on a row whose consolidated GDP per capita is zero or missing the DII
\* is missing, no DII is infinite, and unless the DII column is flat the
\* DII_normalized of that row is missing too.
C18_ZeroGdpNullDII ==
  HasCol(final, "DII") =>
    \A i \in 1..NRows(final) :
      LET r == final.rows[i]
      IN /\ r["DII"] \notin {PosInf, NegInf}
         /\ (IsNull(ConsolidatedGdp(r)) \/ IsZero(ConsolidatedGdp(r)))
              => /\ IsNull(r["DII"])
                 /\ DIINotFlat => IsNull(r["DII_normalized"])

\* a row with deaths, a population and a GDP per capita of zero, in a table
\* whose DII column is not flat
C18_Witness ==
  /\ HasCol(final, "DII")
  /\ DIINotFlat
  /\ \E i \in 1..NRows(final) :
       LET r == final.rows[i]
       IN /\ NotNull(ConsolidatedGdp(r)) /\ IsZero(ConsolidatedGdp(r))
          /\ NotNull(r["population"])
          /\ NotNull(Cell(r, "total_disaster_deaths"))
          /\ RLess(Num(0), Cell(r, "total_disaster_deaths"))
          /\ IsNull(r["DII"]) /\ IsNull(r["DII_normalized"])


-----------------------------------------------------------------------------
(* C19: consolidation only adds columns *)

\* every column of before is a column of after, with the same cells in the
\* same rows
ColumnsKept(before, after) ==
  /\ NRows(after) = NRows(before)
  /\ \A c \in Range(before.cols) :
       /\ HasCol(after, c)
       /\ \A i \in 1..NRows(before) : after.rows[i][c] = before.rows[i][c]

ConsolidationSteps == {"disaster", "economic", "education"}

RawSourceColumns ==
  {"gdp_per_capita", "gdp_per_capita_imf", "emdat_deaths", "desinventar_deaths",
   "gini_index", "gini_wid"}

\* C19: each of the three consolidation steps (disaster, economic, education)
\* leaves every column the table had before the step in place, with every
\* cell unchanged, missing cells included; the step only adds columns
C19_ConsolidationOnlyAdds ==
  [][(pc \in ConsolidationSteps) => ColumnsKept(final, final')]_vars

\* the consolidation is over, the six source columns named by the claim are in
\* the table, and a missing primary cell is still missing next to a best
\* value taken from the secondary, as is a missing death count next to a total
C19_Witness ==
  /\ pc = "dii"
  /\ \A c \in RawSourceColumns : HasCol(final, c)
  /\ \E i \in 1..NRows(final) :
       /\ IsNull(final.rows[i]["gdp_per_capita"])
       /\ NotNull(final.rows[i]["gdp_per_capita_imf"])
       /\ final.rows[i]["gdp_per_capita_best"] = final.rows[i]["gdp_per_capita_imf"]
  /\ \E i \in 1..NRows(final) :
       /\ IsNull(final.rows[i]["emdat_deaths"])
       /\ NotNull(final.rows[i]["total_disaster_deaths"])


-----------------------------------------------------------------------------
(* C20: the consolidated disaster columns *)

\* a + b over the cells of a row, a missing or absent cell counted as zero
SumOfTwo(r, a, b) == RAdd(FillNa(Cell(r, a), Num(0)), FillNa(Cell(r, b), Num(0)))

EventSum(r) == SumOfTwo(r, "emdat_event_count", "desinventar_events")

GdacsCount(r) == FillNa(Cell(r, "gdacs_disaster_count"), Num(0))

-----------------------------------------------------------------------------
(* C21: the codes standardize_iso3 leaves *)

\* the placeholders the claim lists
SentinelCodes ==
  { <<>>, S3("N", "A", "N"), S4("N", "O", "N", "E"), S2("-", "1"), S2("N", "A"),
    S4("N", "U", "L", "L"), S3(".", ".", ".") }

\* no lower-case letter, and no whitespace at either end
IsUpperTrimmed(s) ==
  /\ \A i \in 1..Len(s) : \A k \in 1..Len(LowerCase) : s[i] # LowerCase[k]
  /\ s # <<>> => (s[1] \notin Whitespace /\ s[Len(s)] \notin Whitespace)

\* C21: after standardize_iso3 every code is either missing or an upper-case
\* text without leading or trailing whitespace that is none of the
\* placeholders "", NAN, NONE, -1, NA, NULL, ...; a second application gives
\* the same table
C21_StandardizedCodes ==
  call.fn = "standardize_iso3" =>
    /\ NRows(call.first) = NRows(call.df)
    /\ \A i \in 1..NRows(call.first) :
         LET v == call.first.rows[i].iso3
         IN v = NaN \/ (IsUpperTrimmed(v) /\ v \notin SentinelCodes)
    /\ call.second = call.first

\* a code written in mixed case inside whitespace becomes the plain code, and
\* a lower-case placeholder inside whitespace becomes a missing cell
C21_Witness ==
  /\ call.fn = "standardize_iso3"
  /\ NRows(call.df) = 2
  /\ call.df.rows[1].iso3 = <<"\n", " ", "F", "r", "a", " ", " ">>
  /\ call.first.rows[1].iso3 = FRA
  /\ call.df.rows[2].iso3 = <<" ", "n", "a", " ">>
  /\ call.first.rows[2].iso3 = NaN
  /\ call.second = call.first


-----------------------------------------------------------------------------
(* C22: the politically sensitive entities *)

\* the five entities, upper-cased
SensitiveNames ==
  { HONG_KONG, MACAU, TAIWAN, PALESTINE, <<"K", "O", "S", "O", "V", "O">> }

\* C22: with the registry package importable, each of Hong Kong, Macau,
\* Taiwan, Kosovo and Palestine is resolved by the alias table, to a code that
\* is an entry of the table; the exact-match and the fuzzy step are not reached
C22_SensitiveByAlias ==
  (/\ call.fn = "country_name_to_iso3"
   /\ pycountry
   /\ call.country_name # NaN
   /\ StrUpper(StrStrip(call.country_name)) \in SensitiveNames)
    => /\ call.steps[Len(call.steps)] = "alias"
       /\ \E k \in DOMAIN manual_mappings : call.result = manual_mappings[k]
       /\ "fuzzy" \notin Range(call.steps)


-----------------------------------------------------------------------------
(* C23: the income bracket *)

AfterMetadata == {"coverage", "save", "report", "done"}

\* the bracket the thresholds 1085, 4255 and 13205 give
Bracket(g) ==
  IF RLeq(g, Num(1085)) THEN <<"Low">>
  ELSE IF RLeq(g, Num(4255)) THEN <<"Lower-Middle">>
  ELSE IF RLeq(g, Num(13205)) THEN <<"Upper-Middle">>
  ELSE <<"High">>

\* C23: once the metadata section has run, every row whose consolidated GDP
\* per capita g is not missing has income_group Low for g <= 1085,
\* Lower-Middle for 1085 < g <= 4255, Upper-Middle for 4255 < g <= 13205 and
\* High above, computed from the row's own g
C23_IncomeBracket ==
  pc \in AfterMetadata =>
    \A i \in 1..NRows(final) :
      LET g == ConsolidatedGdp(final.rows[i])
      IN NotNull(g) => Cell(final.rows[i], "income_group") = Bracket(g)


-----------------------------------------------------------------------------
(* C24: the severity weight of an alert *)

\* the GDACS alert records of the files read, with a code and a year in range
GdacsRecords ==
  IF "alerts" \in DOMAIN raw["gdacs_final"]
  THEN SelectSeq(raw["gdacs_final"].alerts,
                 LAMBDA r : InYearRange(r.year) /\ StandardizeCode(r.iso3) # NaN)
  ELSE <<>>

\* GREEN 1, ORANGE 2, RED 3 in any letter case, 1 for anything else
WeightOfLevel(level) ==
  IF level = NaN THEN 1
  ELSE IF StrUpper(level) = RED THEN 3
  ELSE IF StrUpper(level) = ORANGE THEN 2
  ELSE 1

GdacsGroupOk(code, year) ==
  LET recs == SelectSeq(GdacsRecords,
                LAMBDA r : StandardizeCode(r.iso3) = code /\ r.year = year)
      rows == RowsWithKey(datasets["gdacs_final"], code, year)
      total == SumSeq([i \in 1..Len(recs) |-> Num(WeightOfLevel(recs[i].alertlevel))])
  IN /\ rows # <<>>
     /\ \A i \in 1..Len(rows) :
          LET w == rows[i]["gdacs_severity_weight"]
          IN /\ NotNull(w)
             /\ RLeq(Num(1), w) /\ RLeq(w, Num(3))
             /\ w = RDiv(total, Num(Len(recs)))

\* C24: once the GDACS files have been read, every alert record with a code
\* and a year in range counts with weight 1 (GREEN, and any unrecognised or
\* missing level), 2 (ORANGE) or 3 (RED), whatever the letter case, so that
\* its country-year has a mean severity weight that is defined, lies in
\* [1, 3] and is the mean of those weights
C24_SeverityWeight ==
  HasCol(datasets["gdacs_final"], "iso3") =>
    \A i \in 1..Len(GdacsRecords) :
      GdacsGroupOk(StandardizeCode(GdacsRecords[i].iso3), GdacsRecords[i].year)


-----------------------------------------------------------------------------
(* C25: the funding split *)

\* the recipients a record names: the texts between the commas that are not
\* blank, trimmed
NamedRecipients(flow) ==
  SelectSeq([i \in 1..Len(flow.destLocations) |-> StrStrip(flow.destLocations[i])],
            LAMBDA loc : loc # <<>>)

\* C25: a funding record naming n >= 1 recipients gives exactly n rows, one
\* per named recipient in order, each with amount / n, so that the amounts of
\* the rows add up to the amount of the record
C25_EqualSplit ==
  (call.fn = "fts_expand" /\ NamedRecipients(call.flow) # <<>>) =>
    LET named == NamedRecipients(call.flow)
        n == Len(named)
        rows == call.expanded_rows
    IN /\ Len(rows) = n
       /\ \A i \in 1..n :
            /\ rows[i].iso3 = named[i]
            /\ rows[i]["funding_usd"] = RDiv(call.flow.amountUSD, Num(n))
       /\ SumSeq([i \in 1..Len(rows) |-> rows[i]["funding_usd"]]) = call.flow.amountUSD


-----------------------------------------------------------------------------
(* C26: the normalized index columns *)

\* the index column as it is normalized: clipped to [lo, hi], NULL for no bound
ClippedIndex(name, lo, hi) == ClipAll(Column(final, name), lo, hi)

HasValue(series) == \E i \in 1..Len(series) : NotNull(series[i])

AllValuesEqual(series) ==
  \A i, j \in 1..Len(series) :
    (NotNull(series[i]) /\ NotNull(series[j])) => series[i] = series[j]

\* normalized is the 0..100 scaling of series
ScaledTo100(series, normalized) ==
  IF HasValue(series) /\ AllValuesEqual(series)
  THEN \A i \in 1..Len(series) : normalized[i] = Num(50)
  ELSE \A i \in 1..Len(series) :
         /\ IsNull(series[i]) => IsNull(normalized[i])
         /\ NotNull(series[i]) =>
              /\ NotNull(normalized[i])
              /\ RLeq(Num(0), normalized[i]) /\ RLeq(normalized[i], Num(100))
              /\ (\A j \in 1..Len(series) : NotNull(series[j]) => RLeq(series[i], series[j]))
                   => normalized[i] = Num(0)
              /\ (\A j \in 1..Len(series) : NotNull(series[j]) => RLeq(series[j], series[i]))
                   => normalized[i] = Num(100)

IndexScaled(name, lo, hi) ==
  HasCol(final, name) =>
    ScaledTo100(ClippedIndex(name, lo, hi), Column(final, name \o "_normalized"))

\* C26: for each index column (DII clipped below at 0, RRS and CRI clipped to
\* [0, 5]): if its values are all equal the normalized column is 50 in every
\* row; otherwise the rows with the smallest value have 0, those with the
\* largest have 100, every row with a value has a normalized value in
\* [0, 100], and a row without a value has none
C26_NormalizedIndex ==
  /\ IndexScaled("DII", Num(0), NULL)
  /\ IndexScaled("RRS", Num(0), Num(5))
  /\ IndexScaled("CRI", Num(0), Num(5))

\* the DII column has different values and a missing one: its normalized
\* column has a 0, a 100 and a missing cell, for a positive and a zero DII
C26_Witness ==
  /\ HasCol(final, "DII")
  /\ \E i, j, k \in 1..NRows(final) :
       /\ IsNull(final.rows[i]["DII"]) /\ IsNull(final.rows[i]["DII_normalized"])
       /\ IsZero(final.rows[j]["DII"]) /\ final.rows[j]["DII_normalized"] = Num(0)
       /\ NotNull(final.rows[k]["DII"]) /\ RLess(Num(0), final.rows[k]["DII"])
       /\ final.rows[k]["DII_normalized"] = Num(100)


-----------------------------------------------------------------------------
(* C27: exposure and adaptive capacity in the CRI *)

HazardAbsent == \A i \in 1..NRows(final) : IsNull(Cell(final.rows[i], "inform_hazard"))

\* the event count of the rows, min-max normalized, times 10
EventProxy ==
  Times(normalize_0_1([i \in 1..NRows(final) |->
                         FillNa(Cell(final.rows[i], "total_disaster_events"), Num(0))]),
        Num(10))

\* the hazard score of the row; the proxy only when no row has a hazard score
ExposureOf(i) ==
  IF HazardAbsent THEN EventProxy[i] ELSE Cell(final.rows[i], "inform_hazard")

\* readiness where the row has it, else (10 - coping) / 10 with a missing
\* coping score taken as 5
AdaptiveCapacityOf(r) ==
  IF NotNull(Cell(r, "ndgain_readiness")) THEN r["ndgain_readiness"]
  ELSE IF "inform_coping_capacity" \in DOMAIN r
  THEN RDiv(RSub(Num(10), FillNa(r["inform_coping_capacity"], Num(5))), Num(10))
  ELSE NULL

VulnerabilityOf(r) ==
  IF NotNull(Cell(r, "ndgain_vulnerability")) THEN r["ndgain_vulnerability"]
  ELSE IF NotNull(Cell(r, "inform_vulnerability")) THEN RDiv(r["inform_vulnerability"], Num(10))
  ELSE NULL

\* C27: the CRI of every row is computed with, as exposure, the hazard score
\* of the row, or the normalized event count times 10 when and only when no
\* row of the table has a hazard score (a row without a hazard score in a
\* table that has some takes the default 5, not the event count), and with,
\* as adaptive capacity, the readiness score where the row has one and
\* (10 - coping) / 10 only where it has none
C27_ExposureFallback ==
  HasCol(final, "CRI") =>
    \A i \in 1..NRows(final) :
      final.rows[i]["CRI"] =
        CRIValue(AdaptiveCapacityOf(final.rows[i]), ExposureOf(i), VulnerabilityOf(final.rows[i]))

\* a table with a hazard score in one row and none in another row whose event
\* proxy is not the default 5, and with a row that has a coping score and no
\* readiness score
C27_Witness ==
  /\ HasCol(final, "CRI")
  /\ ~HazardAbsent
  /\ \E i \in 1..NRows(final) :
       /\ IsNull(Cell(final.rows[i], "inform_hazard"))
       /\ EventProxy[i] # Num(5)
  /\ \E i \in 1..NRows(final) :
       /\ IsNull(Cell(final.rows[i], "ndgain_readiness"))
       /\ NotNull(Cell(final.rows[i], "inform_coping_capacity"))


-----------------------------------------------------------------------------
(* C28: the year-over-year change of GDP growth *)

\* the consolidated GDP growth of a row, else the World Bank one
ConsolidatedGrowth(r) ==
  IF "gdp_growth_best" \in DOMAIN r THEN r["gdp_growth_best"] ELSE Cell(r, "gdp_growth")

\* the rows of the country of row i with an earlier year
EarlierRows(i) ==
  {j \in 1..NRows(final) :
     final.rows[j].iso3 = final.rows[i].iso3 /\ final.rows[j].year < final.rows[i].year}

\* the rows of the country of row i in the latest year before that of row i
PreviousYearRows(i) ==
  {j \in EarlierRows(i) : \A k \in EarlierRows(i) : final.rows[k].year <= final.rows[j].year}

\* C28: in every row of a country's earliest year the GDP-growth change is
\* missing, and in every later row it is the consolidated GDP growth of the
\* row minus that of the same country's previous year
C28_GrowthChange ==
  HasCol(final, "gdp_growth_change") =>
    \A i \in 1..NRows(final) :
      /\ EarlierRows(i) = {} => IsNull(final.rows[i]["gdp_growth_change"])
      /\ \A j \in PreviousYearRows(i) :
           final.rows[i]["gdp_growth_change"] =
             RSub(ConsolidatedGrowth(final.rows[i]), ConsolidatedGrowth(final.rows[j]))


-----------------------------------------------------------------------------
(* C29: the missing-year check *)

\* C29: the year check gives a warning whenever a year of 2000..2024 has no
\* row in the table, and OK only when all 25 years are there
C29_MissingYearFlag ==
  call.fn = "year_check" =>
    (call.result.flag = "WARNING" <=> (YEAR_START..YEAR_END) \ call.actual_years # {})


-----------------------------------------------------------------------------
(* C30: duplicate keys are kept and reported *)

KeyPair(r) == <<r.iso3, r.year>>

RowsOfKey(t, key) == Cardinality({i \in 1..NRows(t) : KeyPair(t.rows[i]) = key})

\* the rows of a table that repeat the key of an earlier row
RepeatedRows(t) == NRows(t) - Cardinality({KeyPair(t.rows[i]) : i \in 1..NRows(t)})

\* from the post-merge filter to the writing of the table, a step keeps every
\* row whose year is in range and whose code is not missing
KeepsRows ==
  pc \in {"filter", "disaster", "economic", "education", "dii", "rrs", "cri", "metadata",
          "coverage", "save"}
    => \A i \in 1..NRows(final) :
         (InYearRange(final.rows[i].year) /\ final.rows[i].iso3 # NaN)
           => RowsOfKey(final', KeyPair(final.rows[i])) = RowsOfKey(final, KeyPair(final.rows[i]))

\* the report on disk carries a warning with the number of repeated rows of
\* the written table when there are any, and says OK only when there are none
ReportFlagsDuplicates ==
  (OUTPUT_FILE \in DOMAIN files /\ VALIDATION_FILE \in DOMAIN files) =>
    LET k == RepeatedRows(files[OUTPUT_FILE])
        report == files[VALIDATION_FILE]
    IN /\ k > 0 => /\ "duplicate_check" \in DOMAIN report
                   /\ report["duplicate_check"] = [flag |-> "WARNING", count |-> k]
       /\ ("duplicate_check" \in DOMAIN report /\ report["duplicate_check"].flag = "OK")
            => k = 0

\* no step from the post-merge filter on removes a row because its key
\* repeats an earlier one
RowsKeptAfterMerge == [][KeepsRows]_vars

\* the written table has the rows of the table the script ends with
WrittenKeepsRows ==
  (pc \in {"report", "done"} /\ OUTPUT_FILE \in DOMAIN files) =>
    \A i \in 1..NRows(final) :
      RowsOfKey(files[OUTPUT_FILE], KeyPair(final.rows[i])) = RowsOfKey(final, KeyPair(final.rows[i]))

\* C30: the rows that repeat an earlier key are all in the written table,
\* and the validation report on disk carries a duplicate-key warning with
\* their number k whenever k > 0 and says OK only when k = 0
C30_DuplicatesFlagged == WrittenKeepsRows /\ ReportFlagsDuplicates

====
